---- MODULE Spec2Model ----
(***************************************************************************)
(* A model of fxprof-perf-convert (src/src/main.rs): the perf.data event   *)
(* interpreter (`convert` and `Converter`), the stack reconstructor, the   *)
(* registries, the off-CPU sample emitter and the image-bias computer.     *)
(*                                                                         *)
(* Optional values are sequences: None is <<>> and Some(x) is <<x>>.       *)
(* Times are nanoseconds.  A u64 word of a callchain is kept as the signed *)
(* number with the same two's-complement bits, so that the PERF_CONTEXT_*  *)
(* markers (u64 values just below 2^64) are small negative numbers; UGe is *)
(* the unsigned comparison on that representation.                         *)
(***************************************************************************)
EXTENDS Integers, Sequences, FiniteSets, TLC

VARIABLES
    pc,              \* "start" before convert() builds the converter, "run" while
                     \* its loop runs, "failed" when construction panicked,
                     \* "aborted" when a handler panicked
    recording,       \* the parsed header of the input file (PerfFileReader)
    interpretation,  \* EventInterpretation, built once by divine_from_attrs
    converter,       \* the Converter struct (profile, registries, ...)
    last_timestamp,  \* convert()'s local `last_timestamp`
    diagnostics,     \* number of "bad timestamp ordering" lines printed
    hist,            \* the records consumed so far, each with the sizes of the
                     \* output once it was handled
    px               \* the pure-function harness (stack and bias checks)

vars == <<pc, recording, interpretation, converter, last_timestamp, diagnostics, hist, px>>

----------------------------------------------------------------------------
(* Bounds of the model *)

MaxRecords == 3

----------------------------------------------------------------------------
(* Option and sequence helpers *)

None == <<>>
Some(x) == <<x>>
IsSome(o) == o # <<>>
Val(o) == o[1]

Reverse(s) == [i \in 1..Len(s) |-> s[Len(s) + 1 - i]]

Max(a, b) == IF a >= b THEN a ELSE b

----------------------------------------------------------------------------
(* Program constants *)

DEFAULT_OFF_CPU_SAMPLING_INTERVAL_NS == 1000000

\* linux_perf_event_reader::constants, as signed views of the u64 values
PERF_CONTEXT_KERNEL == -128
PERF_CONTEXT_USER == -512
PERF_CONTEXT_GUEST == -2048
PERF_CONTEXT_GUEST_KERNEL == -2176
PERF_CONTEXT_GUEST_USER == -2560
PERF_CONTEXT_MAX == -4095

\* a >= b on u64, for the signed views of a and b
UGe(a, b) == IF (a < 0) = (b < 0) THEN a >= b ELSE a < 0

\* i32 is taken I32Bits wide, so that a sample count can pass i32::MAX
I32Bits == 13
I32_MAX == 2 ^ (I32Bits - 1) - 1

Ms(k) == k * DEFAULT_OFF_CPU_SAMPLING_INTERVAL_NS

----------------------------------------------------------------------------
(* 4.A  TimestampConverter *)

with_reference_timestamp(reference_ns) == [reference_ns |-> reference_ns]

\* u64::saturating_sub, then Timestamp::from_nanos_since_reference
convert_time_wrapping(tc, ktime_ns) == ktime_ns - tc.reference_ns
convert_time(tc, ktime_ns) ==
    IF ktime_ns >= tc.reference_ns THEN ktime_ns - tc.reference_ns ELSE 0

----------------------------------------------------------------------------
(* 4.H  EventInterpretation::divine_from_attrs.  attrs is the sequence of   *)
(* attribute descriptions; the result is <<"panic">> for NoSampling, and    *)
(* for Frequency(0), where `1_000_000_000 / freq` divides by zero.          *)

\* The match arms in another order: every Period is taken as nanoseconds
sampling_period_of_any_period(attr) ==
    CASE attr.sampling_policy[1] = "Frequency" ->
            Some(1000000000 \div attr.sampling_policy[2])
      [] attr.sampling_policy[1] = "Period" -> Some(attr.sampling_policy[2])
      [] OTHER -> None
sampling_period_of(attr) ==
    CASE attr.sampling_policy[1] = "Frequency" ->
            Some(1000000000 \div attr.sampling_policy[2])
      [] attr.sampling_policy[1] = "Period"
           /\ attr.type \in {"SoftwareCpuClock", "SoftwareTaskClock"} ->
            Some(attr.sampling_policy[2])
      [] OTHER -> None

position_sched_switch(attrs) ==
    LET hits == {i \in 1..Len(attrs) : attrs[i].name = Some("sched:sched_switch")}
    IN  IF hits = {} THEN None
        ELSE Some((CHOOSE i \in hits : \A j \in hits : i <= j) - 1)

divine_from_attrs(attrs) ==
    IF attrs[1].sampling_policy[1] = "NoSampling" THEN <<"panic">>
    ELSE IF attrs[1].sampling_policy = <<"Frequency", 0>> THEN <<"panic">>
    ELSE <<"ok",
           [main_event_attr_index |-> 0,
            sampling_is_time_based |-> sampling_period_of(attrs[1]),
            have_context_switches |-> attrs[1].context_switch,
            sched_switch_attr_index |-> position_sched_switch(attrs)]>>

----------------------------------------------------------------------------
(* 4.B / 4.G  Stack frames and the stack reconstructor *)

\* impl From<CpuMode> for StackMode
StackMode_from(cpu_mode) ==
    IF cpu_mode \in {"Kernel", "GuestKernel"} THEN "Kernel" ELSE "User"

\* Only the host's markers are known
from_context_frame_host_only(frame) ==
    IF frame = PERF_CONTEXT_KERNEL THEN Some("Kernel")
    ELSE IF frame = PERF_CONTEXT_USER THEN Some("User")
    ELSE None
\* StackMode::from_context_frame
from_context_frame(frame) ==
    IF frame \in {PERF_CONTEXT_KERNEL, PERF_CONTEXT_GUEST_KERNEL} THEN Some("Kernel")
    ELSE IF frame \in {PERF_CONTEXT_USER, PERF_CONTEXT_GUEST, PERF_CONTEXT_GUEST_USER}
         THEN Some("User")
    ELSE None

InstructionPointer(addr, mode) == [kind |-> "IP", addr |-> addr, mode |-> mode]
ReturnAddress(addr, mode) == [kind |-> "RA", addr |-> addr, mode |-> mode]
TruncatedStackMarker == [kind |-> "Trunc", addr |-> 0, mode |-> "User"]

RECURSIVE callchain_frames_first_word(_, _, _)
\* The loop with is_first_frame cleared on every word, context markers too
callchain_frames_first_word(callchain, i, st) ==
    IF i > Len(callchain) THEN st
    ELSE LET address == callchain[i]
         IN  IF UGe(address, PERF_CONTEXT_MAX)
             THEN LET nm == from_context_frame(address)
                  IN  callchain_frames_first_word(callchain, i + 1,
                          <<st[1], FALSE, IF IsSome(nm) THEN Val(nm) ELSE st[3]>>)
             ELSE callchain_frames_first_word(callchain, i + 1,
                      <<Append(st[1], IF st[2] THEN InstructionPointer(address, st[3])
                                      ELSE ReturnAddress(address, st[3])),
                        FALSE, st[3]>>)

RECURSIVE callchain_frames(_, _, _)
\* The loop over e.callchain: st is <<stack, is_first_frame, mode>> so far.
callchain_frames(callchain, i, st) ==
    IF i > Len(callchain) THEN st
    ELSE LET address == callchain[i]
         IN  IF UGe(address, PERF_CONTEXT_MAX)
             THEN LET nm == from_context_frame(address)
                  IN  callchain_frames(callchain, i + 1,
                          <<st[1], st[2], IF IsSome(nm) THEN Val(nm) ELSE st[3]>>)
             ELSE callchain_frames(callchain, i + 1,
                      <<Append(st[1], IF st[2] THEN InstructionPointer(address, st[3])
                                      ELSE ReturnAddress(address, st[3])),
                        FALSE, st[3]>>)

\* The frames the DWARF unwinder yields for a sample are an input of the model:
\* e.user_regs and e.user_stack tell whether the sample has them, and e.unwind
\* holds the FrameAddress values iter_frames returns on them before it ends
\* (ok) or fails (err).
unwind_frames_unmarked(u) ==
    [i \in 1..Len(u.frames) |->
        IF u.frames[i].kind = "IP" THEN InstructionPointer(u.frames[i].addr, "User")
        ELSE ReturnAddress(u.frames[i].addr, "User")]
unwind_frames(u) ==
    [i \in 1..Len(u.frames) |->
        IF u.frames[i].kind = "IP" THEN InstructionPointer(u.frames[i].addr, "User")
        ELSE ReturnAddress(u.frames[i].addr, "User")]
    \o (IF u.err THEN <<TruncatedStackMarker>> ELSE <<>>)

\* The fallback without its emptiness test
get_sample_stack_ip_always(e) ==
    LET s1 == IF IsSome(e.callchain)
              THEN callchain_frames(Val(e.callchain), 1,
                       <<<<>>, TRUE, StackMode_from(e.cpu_mode)>>)[1]
              ELSE <<>>
        s2 == IF e.user_regs /\ e.user_stack THEN s1 \o unwind_frames(e.unwind) ELSE s1
    IN  IF IsSome(e.ip)
        THEN Append(s2, InstructionPointer(Val(e.ip), StackMode_from(e.cpu_mode)))
        ELSE s2
get_sample_stack(e) ==
    LET s1 == IF IsSome(e.callchain)
              THEN callchain_frames(Val(e.callchain), 1,
                       <<<<>>, TRUE, StackMode_from(e.cpu_mode)>>)[1]
              ELSE <<>>
        s2 == IF e.user_regs /\ e.user_stack THEN s1 \o unwind_frames(e.unwind) ELSE s1
    IN  IF s2 = <<>> /\ IsSome(e.ip)
        THEN <<InstructionPointer(Val(e.ip), StackMode_from(e.cpu_mode))>>
        ELSE s2

IsRealFrame(f) == f.kind # "Trunc"
IsUserFrame(f) == f.kind # "Trunc" /\ f.mode = "User"
\* (Frame, CategoryPairHandle): the category is named after its mode
OutFrame(f) == [kind |-> f.kind, addr |-> f.addr, category |-> f.mode]

\* StackConverter::convert_stack
convert_stack_unreversed(stack) ==
    LET kept == SelectSeq(stack, IsRealFrame)
    IN  [i \in 1..Len(kept) |-> OutFrame(kept[i])]
convert_stack(stack) ==
    LET kept == SelectSeq(Reverse(stack), IsRealFrame)
    IN  [i \in 1..Len(kept) |-> OutFrame(kept[i])]

\* StackConverter::convert_stack_no_kernel
convert_stack_no_kernel(stack) ==
    LET kept == SelectSeq(Reverse(stack), IsUserFrame)
    IN  [i \in 1..Len(kept) |-> OutFrame(kept[i])]

----------------------------------------------------------------------------
(* 4.E  The off-CPU / context-switch handler.  Its module (context_switch)  *)
(* is not among the sources; it is modelled from section 4.E of the         *)
(* specification.  A thread's datum is its state, the time it was last      *)
(* marked on or off CPU, and the on-CPU time metered since the last         *)
(* consumption.                                                             *)

ThreadContextSwitchData_default == [state |-> "Unknown", since |-> 0, cpu |-> 0]

ContextSwitchHandler_new(off_cpu_sampling_interval_ns) ==
    [off_cpu_sampling_interval_ns |-> off_cpu_sampling_interval_ns]

OffCpuSampleGroup(begin, end, count) ==
    [begin_timestamp |-> begin, end_timestamp |-> end, sample_count |-> count]

\* on-CPU time metered up to `timestamp`
MeterOn(d, timestamp) ==
    IF d.state = "On" /\ timestamp >= d.since THEN d.cpu + (timestamp - d.since) ELSE d.cpu

\* on_sample(ts): <<group or None, datum after>>
cs_handle_sample(h, timestamp, d) ==
    <<IF d.state = "Off"
      THEN Some(OffCpuSampleGroup(d.since, timestamp,
                    (timestamp - d.since) \div h.off_cpu_sampling_interval_ns))
      ELSE None,
      [state |-> "On", since |-> timestamp, cpu |-> MeterOn(d, timestamp)]>>

\* The group is produced, the thread is left off-CPU
cs_handle_switch_in_stays_off(h, timestamp, d) ==
    <<cs_handle_sample(h, timestamp, d)[1],
      [state |-> d.state, since |-> d.since, cpu |-> MeterOn(d, timestamp)]>>
\* on_switch_in(ts): same as on_sample, and a new on-CPU interval begins
cs_handle_switch_in(h, timestamp, d) == cs_handle_sample(h, timestamp, d)

\* on_switch_out(ts): mark the thread off-CPU at ts
cs_handle_switch_out(h, timestamp, d) ==
    [state |-> "Off", since |-> timestamp, cpu |-> MeterOn(d, timestamp)]

\* consume_cpu_delta(): <<delta, datum after>>
cs_consume_cpu_delta(h, d) == <<d.cpu, [d EXCEPT !.cpu = 0]>>

----------------------------------------------------------------------------
(* The output document (fxprof_processed_profile::Profile), as far as the   *)
(* converter writes it.  A handle is the index of the process or thread in  *)
(* the document.  Each sample also records which call appended it (site)    *)
(* and how many threads and processes the document held at that moment.     *)

Profile_new(product) ==
    [product |-> product, processes |-> <<>>, threads |-> <<>>, samples |-> <<>>]

add_process(profile, name, pid, start_time) ==
    [profile EXCEPT !.processes =
        Append(@, [name |-> name, pid |-> pid, start_time |-> start_time,
                   end_time |-> None, libs |-> <<>>])]

add_thread(profile, process_handle, tid, start_time, is_main) ==
    [profile EXCEPT !.threads =
        Append(@, [process |-> process_handle, tid |-> tid, start_time |-> start_time,
                   end_time |-> None, name |-> None, is_main |-> is_main])]

add_lib(profile, process_handle, lib) ==
    [profile EXCEPT !.processes[process_handle].libs = Append(@, lib)]

add_sample(profile, thread_handle, timestamp, frames, cpu_delta, weight, site) ==
    [profile EXCEPT !.samples =
        Append(@, [thread |-> thread_handle, timestamp |-> timestamp,
                   frames |-> frames, cpu_delta |-> cpu_delta, weight |-> weight,
                   site |-> site,
                   threads_then |-> Len(profile.threads),
                   processes_then |-> Len(profile.processes)])]

RECURSIVE add_libs(_, _, _)
add_libs(profile, process_handle, libs) ==
    IF libs = <<>> THEN profile
    ELSE add_libs(add_lib(profile, process_handle, Head(libs)), process_handle, Tail(libs))

----------------------------------------------------------------------------
(* 4.F  Registries.  Both work on the converter, whose fields they borrow.  *)

\* Processes::get_by_pid
get_by_pid_no_libs(c, pid) ==
    IF IsSome(c.processes[pid]) THEN c
    ELSE LET p1 == add_process(c.profile, <<"<", pid, ">">>, pid, 0)
             handle == Len(p1.processes)
         IN  [c EXCEPT !.profile = p1,
                       !.processes[pid] =
                           Some([profile_process |-> handle, unwinder |-> <<>>])]
get_by_pid(c, pid) ==
    IF IsSome(c.processes[pid]) THEN c
    ELSE LET p1 == add_process(c.profile, <<"<", pid, ">">>, pid, 0)
             handle == Len(p1.processes)
             p2 == add_libs(p1, handle, c.kernel_modules)
         IN  [c EXCEPT !.profile = p2,
                       !.processes[pid] =
                           Some([profile_process |-> handle, unwinder |-> <<>>])]

NewThread(profile_thread) ==
    [profile_thread |-> profile_thread,
     context_switch_data |-> ThreadContextSwitchData_default,
     last_sample_timestamp |-> None,
     off_cpu_stack |-> <<>>]

\* Threads::get_by_tid
get_by_tid_unregistered(c, tid, process_handle, is_main) ==
    IF IsSome(c.threads[tid]) THEN c
    ELSE [c EXCEPT !.threads[tid] = Some(NewThread(Len(c.profile.threads) + 1))]
get_by_tid(c, tid, process_handle, is_main) ==
    IF IsSome(c.threads[tid]) THEN c
    ELSE LET p1 == add_thread(c.profile, process_handle, tid, 0, is_main)
         IN  [c EXCEPT !.profile = p1,
                       !.threads[tid] = Some(NewThread(Len(p1.threads)))]

----------------------------------------------------------------------------
(* 4.J  process_off_cpu_sample_group *)

\* i32::try_from(sample_count - 1).unwrap_or(0)
i32_try_from_or_0(n) == IF n >= -I32_MAX - 1 /\ n <= I32_MAX THEN n ELSE 0

\* The rest sample weighted by the count itself, without the conversion
process_off_cpu_sample_group_unconverted(profile, off_cpu_sample, thread_handle, cpu_delta_ns, tc, off_cpu_weight_per_sample, off_cpu_stack) ==
    LET p1 == add_sample(profile, thread_handle,
                  convert_time(tc, off_cpu_sample.begin_timestamp),
                  off_cpu_stack, cpu_delta_ns, off_cpu_weight_per_sample, "off_begin")
    IN  IF off_cpu_sample.sample_count > 1
        THEN add_sample(p1, thread_handle,
                 convert_time(tc, off_cpu_sample.end_timestamp),
                 off_cpu_stack, 0,
                 off_cpu_sample.sample_count * off_cpu_weight_per_sample, "off_rest")
        ELSE p1
process_off_cpu_sample_group_end_first(profile, off_cpu_sample, thread_handle, cpu_delta_ns, tc, off_cpu_weight_per_sample, off_cpu_stack) ==
    LET p1 == add_sample(profile, thread_handle,
                  convert_time(tc, off_cpu_sample.end_timestamp),
                  off_cpu_stack, cpu_delta_ns, off_cpu_weight_per_sample, "off_begin")
    IN  IF off_cpu_sample.sample_count > 1
        THEN add_sample(p1, thread_handle,
                 convert_time(tc, off_cpu_sample.begin_timestamp),
                 off_cpu_stack, 0,
                 i32_try_from_or_0(off_cpu_sample.sample_count - 1)
                     * off_cpu_weight_per_sample, "off_rest")
        ELSE p1
process_off_cpu_sample_group(profile, off_cpu_sample, thread_handle, cpu_delta_ns, tc, off_cpu_weight_per_sample, off_cpu_stack) ==
    LET p1 == add_sample(profile, thread_handle,
                  convert_time(tc, off_cpu_sample.begin_timestamp),
                  off_cpu_stack, cpu_delta_ns, off_cpu_weight_per_sample, "off_begin")
    IN  IF off_cpu_sample.sample_count > 1
        THEN add_sample(p1, thread_handle,
                 convert_time(tc, off_cpu_sample.end_timestamp),
                 off_cpu_stack, 0,
                 i32_try_from_or_0(off_cpu_sample.sample_count - 1)
                     * off_cpu_weight_per_sample, "off_rest")
        ELSE p1

----------------------------------------------------------------------------
(* 4.C  compute_image_bias.  u64 arithmetic wraps; the model keeps words of *)
(* AddrBits bits.  An object file is its sections and segments in file      *)
(* order; file_range is None or Some(<<offset, size>>).                     *)

AddrBits == 8
Wrap(x) == x % (2 ^ AddrBits)

PF_X == 1

\* The closure given to find_map: None, or Some(<<start_offset, s.address()>>)
section_fits(s, mapping_start_file_offset, mapping_end_file_offset) ==
    IF IsSome(s.file_range)
    THEN LET start_offset == Val(s.file_range)[1]
             end_offset == start_offset + Val(s.file_range)[2]
         IN  IF mapping_start_file_offset <= start_offset
                /\ end_offset <= mapping_end_file_offset
             THEN Some(<<start_offset, s.address>>)
             ELSE None
    ELSE None

RECURSIVE find_text_section(_, _, _)
\* file.sections().filter(kind == Text).find_map(...)
find_text_section(sections, mapping_start_file_offset, mapping_end_file_offset) ==
    IF sections = <<>> THEN None
    ELSE LET s == Head(sections)
             hit == IF s.kind = "Text"
                    THEN section_fits(s, mapping_start_file_offset, mapping_end_file_offset)
                    ELSE None
         IN  IF IsSome(hit) THEN hit
             ELSE find_text_section(Tail(sections), mapping_start_file_offset,
                                    mapping_end_file_offset)

\* One turn of the loop over file.segments(): None, or Some(bias) when it returns.
\* The contained-mapping test compares against segment.size(), the memory size.
segment_bias_by_file_size(segment, mapping_start_file_offset, mapping_start_avma) ==
    IF segment.kind = "Load" /\ (segment.flags \div PF_X) % 2 = 1 /\ IsSome(segment.file_range)
    THEN LET segment_file_offset == Val(segment.file_range)[1]
             segment_start_svma == segment.address
         IN  IF mapping_start_file_offset = segment_file_offset
             THEN Some(Wrap(mapping_start_avma - segment_start_svma))
             ELSE IF mapping_start_file_offset >= segment_file_offset
                     /\ mapping_start_file_offset < segment_file_offset + Val(segment.file_range)[2]
             THEN Some(Wrap(mapping_start_avma
                            - (segment_start_svma
                               + (mapping_start_file_offset - segment_file_offset))))
             ELSE None
    ELSE None
segment_bias(segment, mapping_start_file_offset, mapping_start_avma) ==
    IF segment.kind = "Load" /\ (segment.flags \div PF_X) % 2 = 1 /\ IsSome(segment.file_range)
    THEN LET segment_file_offset == Val(segment.file_range)[1]
             segment_start_svma == segment.address
         IN  IF mapping_start_file_offset = segment_file_offset
             THEN Some(Wrap(mapping_start_avma - segment_start_svma))
             ELSE IF mapping_start_file_offset >= segment_file_offset
                     /\ mapping_start_file_offset < segment_file_offset + segment.size
             THEN Some(Wrap(mapping_start_avma
                            - (segment_start_svma
                               + (mapping_start_file_offset - segment_file_offset))))
             ELSE None
    ELSE None

RECURSIVE scan_segments(_, _, _)
scan_segments(segments, mapping_start_file_offset, mapping_start_avma) ==
    IF segments = <<>> THEN None
    ELSE LET b == segment_bias(Head(segments), mapping_start_file_offset, mapping_start_avma)
         IN  IF IsSome(b) THEN b
             ELSE scan_segments(Tail(segments), mapping_start_file_offset, mapping_start_avma)

compute_image_bias_mapping_svma(file, mapping_start_file_offset, mapping_start_avma, mapping_size) ==
    LET hit == find_text_section(file.sections, mapping_start_file_offset,
                                 mapping_start_file_offset + mapping_size)
    IN  IF IsSome(hit)
        THEN Some(Wrap(mapping_start_avma - Val(hit)[2]))
        ELSE IF file.is_elf
             THEN scan_segments(file.segments, mapping_start_file_offset, mapping_start_avma)
             ELSE None
compute_image_bias(file, mapping_start_file_offset, mapping_start_avma, mapping_size) ==
    LET mapping_end_file_offset == mapping_start_file_offset + mapping_size
        hit == find_text_section(file.sections, mapping_start_file_offset,
                                 mapping_end_file_offset)
    IN  IF IsSome(hit)
        THEN LET section_start_file_offset == Val(hit)[1]
                 section_start_svma == Val(hit)[2]
                 section_start_avma ==
                     mapping_start_avma + (section_start_file_offset - mapping_start_file_offset)
             IN  Some(Wrap(section_start_avma - section_start_svma))
        ELSE IF file.is_elf
             THEN scan_segments(file.segments, mapping_start_file_offset, mapping_start_avma)
             ELSE None

----------------------------------------------------------------------------
(* 4.D  add_module_to_unwinder.  `file` is what the filesystem holds for    *)
(* the path (after the fallback directory was tried): None when it cannot   *)
(* be opened, else the object with mmap_ok, parse_ok, build_id, debug_id.   *)
(* The result is <<unwinder after, Some(lib) or None>>.                     *)

DebugId_from_identifier(build_id) == <<"debug_id_of", build_id>>
DebugId_default == <<"debug_id_nil">>

LibraryInfo(base_avma, avma_range, debug_id, code_id, path, debug_path) ==
    [base_avma |-> base_avma, avma_range |-> avma_range, debug_id |-> debug_id,
     code_id |-> code_id, path |-> path, debug_path |-> debug_path]

\* Paths that name no file: they start with `[`
PseudoPaths == {"[vdso]", "[kernel.kallsyms]", "[kernel.kallsyms]_text"}

\* The `else` branch: the file could not be opened, and the descriptor is a guess
unopened_module_unless_pseudo(path, mapping_start_file_offset, mapping_start_avma, mapping_size, build_id) ==
    IF path \in PseudoPaths THEN None
    ELSE Some(LibraryInfo(Wrap(mapping_start_avma - mapping_start_file_offset),
                  <<mapping_start_avma, mapping_start_avma + mapping_size>>,
                  IF IsSome(build_id) THEN DebugId_from_identifier(Val(build_id))
                  ELSE DebugId_default,
                  build_id, path, path))
unopened_module(path, mapping_start_file_offset, mapping_start_avma, mapping_size, build_id) ==
    Some(LibraryInfo(Wrap(mapping_start_avma - mapping_start_file_offset),
             <<mapping_start_avma, mapping_start_avma + mapping_size>>,
             IF IsSome(build_id) THEN DebugId_from_identifier(Val(build_id))
             ELSE DebugId_default,
             build_id, path, path))

add_module_to_unwinder_unverified(unwinder, path, file, mapping_start_file_offset, mapping_start_avma, mapping_size, build_id) ==
    LET avma_range == <<mapping_start_avma, mapping_start_avma + mapping_size>>
    IN  IF IsSome(file)
        THEN LET f == Val(file)
             IN  IF ~f.mmap_ok \/ ~f.parse_ok THEN <<unwinder, None>>
                 ELSE LET bias == compute_image_bias(f, mapping_start_file_offset,
                                                     mapping_start_avma, mapping_size)
                          base_avma == IF IsSome(bias) THEN Val(bias) ELSE 0
                          module == [path |-> path, avma_range |-> avma_range,
                                     base_avma |-> base_avma]
                          u1 == Append(unwinder, module)
                      IN  IF ~IsSome(f.debug_id) THEN <<u1, None>>
                          ELSE <<u1, Some(LibraryInfo(base_avma, avma_range,
                                         Val(f.debug_id), f.build_id, path, path))>>
        ELSE <<unwinder, unopened_module(path, mapping_start_file_offset,
                             mapping_start_avma, mapping_size, build_id)>>
add_module_to_unwinder(unwinder, path, file, mapping_start_file_offset, mapping_start_avma, mapping_size, build_id) ==
    LET avma_range == <<mapping_start_avma, mapping_start_avma + mapping_size>>
    IN  IF IsSome(file)
        THEN LET f == Val(file)
             IN  IF ~f.mmap_ok \/ ~f.parse_ok THEN <<unwinder, None>>
                 ELSE IF IsSome(build_id) /\ f.build_id # build_id THEN <<unwinder, None>>
                 ELSE LET bias == compute_image_bias(f, mapping_start_file_offset,
                                                     mapping_start_avma, mapping_size)
                      IN  IF ~IsSome(bias) THEN <<unwinder, None>>
                          ELSE LET module == [path |-> path, avma_range |-> avma_range,
                                              base_avma |-> Val(bias)]
                                   u1 == Append(unwinder, module)
                               IN  IF ~IsSome(f.debug_id) THEN <<u1, None>>
                                   ELSE <<u1, Some(LibraryInfo(Val(bias), avma_range,
                                                  Val(f.debug_id), f.build_id, path, path))>>
        ELSE <<unwinder, unopened_module(path, mapping_start_file_offset,
                             mapping_start_avma, mapping_size, build_id)>>

----------------------------------------------------------------------------
(* Converter::new *)

\* The interval left at its default
off_cpu_settings_default_interval(interpretation_) ==
    IF IsSome(interpretation_.sampling_is_time_based)
    THEN <<DEFAULT_OFF_CPU_SAMPLING_INTERVAL_NS, 1>>
    ELSE <<DEFAULT_OFF_CPU_SAMPLING_INTERVAL_NS, 0>>
off_cpu_settings_always_weighted(interpretation_) ==
    IF IsSome(interpretation_.sampling_is_time_based)
    THEN <<Val(interpretation_.sampling_is_time_based), 1>>
    ELSE <<DEFAULT_OFF_CPU_SAMPLING_INTERVAL_NS, 1>>
\* (off_cpu_sampling_interval_ns, off_cpu_weight_per_sample)
off_cpu_settings(interpretation_) ==
    IF IsSome(interpretation_.sampling_is_time_based)
    THEN <<Val(interpretation_.sampling_is_time_based), 1>>
    ELSE <<DEFAULT_OFF_CPU_SAMPLING_INTERVAL_NS, 0>>

PidDomain == {-1, 1, 2}
TidDomain == {1, 2}

Converter_new(product, build_ids, first_sample_time, host, perf_version, linux_version, interpretation_) ==
    [profile |-> Profile_new(product),
     processes |-> [p \in PidDomain |-> None],
     threads |-> [t \in TidDomain |-> None],
     kernel_modules |-> <<>>,
     timestamp_converter |-> with_reference_timestamp(first_sample_time),
     current_sample_time |-> first_sample_time,
     build_ids |-> build_ids,
     have_product_name |-> FALSE,
     host |-> host,
     perf_version |-> perf_version,
     linux_version |-> linux_version,
     off_cpu_weight_per_sample |-> off_cpu_settings(interpretation_)[2],
     context_switch_handler |-> ContextSwitchHandler_new(off_cpu_settings(interpretation_)[1]),
     have_context_switches |-> interpretation_.have_context_switches]

----------------------------------------------------------------------------
(* Converter::handle_sample *)

\* `thread.last_sample_timestamp == Some(timestamp)`: the duplicate test
is_duplicate_never(thread, timestamp) == FALSE
is_duplicate(thread, timestamp) == thread.last_sample_timestamp = Some(timestamp)

\* The arms in another order: a sample's period is preferred to the meter
sample_cpu_delta_period_first(c, e, d) ==
    IF IsSome(e.period) THEN <<Val(e.period), d>>
    ELSE IF c.have_context_switches
    THEN cs_consume_cpu_delta(c.context_switch_handler, d)
    ELSE <<0, d>>
\* The CPU delta of the on-CPU sample: <<delta, context-switch datum after>>
sample_cpu_delta(c, e, d) ==
    IF c.have_context_switches
    THEN cs_consume_cpu_delta(c.context_switch_handler, d)
    ELSE IF IsSome(e.period) THEN <<Val(e.period), d>>
    ELSE <<0, d>>

\* The part of handle_sample after the duplicate test, with the on-CPU sample
\* appended before the off-CPU group
emit_sample_on_cpu_first(c, e, tid, timestamp, stack) ==
    LET thread == Val(c.threads[tid])
        thread_handle == thread.profile_thread
        r == cs_handle_sample(c.context_switch_handler, timestamp, thread.context_switch_data)
        off_cpu_sample == r[1]
        cd == cs_consume_cpu_delta(c.context_switch_handler, r[2])
        d2 == IF IsSome(off_cpu_sample) THEN cd[2] ELSE r[2]
        delta == sample_cpu_delta(c, e, d2)
        p1 == add_sample(c.profile, thread_handle,
                  convert_time(c.timestamp_converter, timestamp),
                  convert_stack(stack), delta[1], 1, "on_cpu")
        p2 == IF IsSome(off_cpu_sample)
              THEN process_off_cpu_sample_group(p1, Val(off_cpu_sample),
                       thread_handle, cd[1], c.timestamp_converter,
                       c.off_cpu_weight_per_sample, thread.off_cpu_stack)
              ELSE p1
    IN  [c EXCEPT !.profile = p2,
                  !.threads[tid] = Some([thread EXCEPT
                      !.context_switch_data = delta[2],
                      !.off_cpu_stack = <<>>,
                      !.last_sample_timestamp = Some(timestamp)])]
\* The part of handle_sample after the duplicate test
emit_sample(c, e, tid, timestamp, stack) ==
    LET thread == Val(c.threads[tid])
        thread_handle == thread.profile_thread
        r == cs_handle_sample(c.context_switch_handler, timestamp, thread.context_switch_data)
        off_cpu_sample == r[1]
        cd == cs_consume_cpu_delta(c.context_switch_handler, r[2])
        d2 == IF IsSome(off_cpu_sample) THEN cd[2] ELSE r[2]
        p1 == IF IsSome(off_cpu_sample)
              THEN process_off_cpu_sample_group(c.profile, Val(off_cpu_sample),
                       thread_handle, cd[1], c.timestamp_converter,
                       c.off_cpu_weight_per_sample, thread.off_cpu_stack)
              ELSE c.profile
        delta == sample_cpu_delta(c, e, d2)
        frames == convert_stack(stack)
        p2 == add_sample(p1, thread_handle,
                  convert_time(c.timestamp_converter, timestamp),
                  frames, delta[1], 1, "on_cpu")
    IN  [c EXCEPT !.profile = p2,
                  !.threads[tid] = Some([thread EXCEPT
                      !.context_switch_data = delta[2],
                      !.off_cpu_stack = <<>>,
                      !.last_sample_timestamp = Some(timestamp)])]

\* The three expect() calls at the head of handle_sample
sample_panics(e) == ~IsSome(e.pid) \/ ~IsSome(e.tid) \/ ~IsSome(e.timestamp)

\* The converter as a failing `expect` leaves it: the three of them come
\* before any other statement of handle_sample
sample_expects_at_use(c, e) ==
    IF IsSome(e.pid) THEN get_by_pid(c, Val(e.pid)) ELSE c
sample_expects(c, e) == c

\* The handler with the saved stack cleared before the duplicate test
handle_sample_clearing_first(c, e) ==
    LET pid == Val(e.pid)
        tid == Val(e.tid)
        timestamp == Val(e.timestamp)
        c1 == [c EXCEPT !.current_sample_time = timestamp]
        is_main == pid = tid
        c2 == get_by_pid(c1, pid)
        process == Val(c2.processes[pid])
        stack == get_sample_stack(e)
        c3 == get_by_tid(c2, tid, process.profile_process, is_main)
        thread == Val(c3.threads[tid])
    IN  IF is_duplicate(thread, timestamp)
        THEN [c3 EXCEPT !.threads[tid] = Some([thread EXCEPT !.off_cpu_stack = <<>>])]
        ELSE emit_sample(c3, e, tid, timestamp, stack)
handle_sample(c, e) ==
    LET pid == Val(e.pid)
        tid == Val(e.tid)
        timestamp == Val(e.timestamp)
        c1 == [c EXCEPT !.current_sample_time = timestamp]
        is_main == pid = tid
        c2 == get_by_pid(c1, pid)
        process == Val(c2.processes[pid])
        stack == get_sample_stack(e)
        c3 == get_by_tid(c2, tid, process.profile_process, is_main)
        thread == Val(c3.threads[tid])
    IN  IF is_duplicate(thread, timestamp) THEN c3
        ELSE emit_sample(c3, e, tid, timestamp, stack)

\* Converter::handle_sched_switch
sched_switch_panics(e) == ~IsSome(e.pid) \/ ~IsSome(e.tid)

\* The stack kept with its kernel frames
handle_sched_switch_with_kernel(c, e) ==
    LET pid == Val(e.pid)
        tid == Val(e.tid)
        is_main == pid = tid
        c1 == get_by_pid(c, pid)
        process == Val(c1.processes[pid])
        stack == convert_stack(get_sample_stack(e))
        c2 == get_by_tid(c1, tid, process.profile_process, is_main)
    IN  [c2 EXCEPT !.threads[tid] = Some([Val(c2.threads[tid]) EXCEPT !.off_cpu_stack = stack])]
handle_sched_switch(c, e) ==
    LET pid == Val(e.pid)
        tid == Val(e.tid)
        is_main == pid = tid
        c1 == get_by_pid(c, pid)
        process == Val(c1.processes[pid])
        stack == convert_stack_no_kernel(get_sample_stack(e))
        c2 == get_by_tid(c1, tid, process.profile_process, is_main)
    IN  [c2 EXCEPT !.threads[tid] = Some([Val(c2.threads[tid]) EXCEPT !.off_cpu_stack = stack])]

----------------------------------------------------------------------------
(* Converter::handle_context_switch.  e.in tells In from Out; common holds  *)
(* the record's pid, tid and timestamp.                                     *)

context_switch_panics(common) ==
    ~IsSome(common.pid) \/ ~IsSome(common.tid) \/ ~IsSome(common.timestamp)

\* The handler with the saved stack kept over a switch-in
handle_context_switch_keeps_stack(c, e, common) ==
    LET pid == Val(common.pid)
        tid == Val(common.tid)
        timestamp == Val(common.timestamp)
        is_main == pid = tid
        c1 == get_by_pid(c, pid)
        process_handle == Val(c1.processes[pid]).profile_process
        c2 == get_by_tid(c1, tid, process_handle, is_main)
        thread == Val(c2.threads[tid])
    IN  IF e.in
        THEN LET r == cs_handle_switch_in(c2.context_switch_handler, timestamp,
                          thread.context_switch_data)
                 off_cpu_sample == r[1]
                 cd == cs_consume_cpu_delta(c2.context_switch_handler, r[2])
                 d2 == IF IsSome(off_cpu_sample) THEN cd[2] ELSE r[2]
                 p1 == IF IsSome(off_cpu_sample)
                       THEN process_off_cpu_sample_group(c2.profile, Val(off_cpu_sample),
                                thread.profile_thread, cd[1], c2.timestamp_converter,
                                c2.off_cpu_weight_per_sample, thread.off_cpu_stack)
                       ELSE c2.profile
             IN  [c2 EXCEPT !.profile = p1,
                            !.threads[tid] = Some([thread EXCEPT
                                !.context_switch_data = d2])]
        ELSE [c2 EXCEPT !.threads[tid] = Some([thread EXCEPT
                 !.context_switch_data =
                     cs_handle_switch_out(c2.context_switch_handler, timestamp,
                         thread.context_switch_data)])]

handle_context_switch(c, e, common) ==
    LET pid == Val(common.pid)
        tid == Val(common.tid)
        timestamp == Val(common.timestamp)
        is_main == pid = tid
        c1 == get_by_pid(c, pid)
        process_handle == Val(c1.processes[pid]).profile_process
        c2 == get_by_tid(c1, tid, process_handle, is_main)
        thread == Val(c2.threads[tid])
    IN  IF e.in
        THEN LET r == cs_handle_switch_in(c2.context_switch_handler, timestamp,
                          thread.context_switch_data)
                 off_cpu_sample == r[1]
                 cd == cs_consume_cpu_delta(c2.context_switch_handler, r[2])
                 d2 == IF IsSome(off_cpu_sample) THEN cd[2] ELSE r[2]
                 p1 == IF IsSome(off_cpu_sample)
                       THEN process_off_cpu_sample_group(c2.profile, Val(off_cpu_sample),
                                thread.profile_thread, cd[1], c2.timestamp_converter,
                                c2.off_cpu_weight_per_sample, thread.off_cpu_stack)
                       ELSE c2.profile
             IN  [c2 EXCEPT !.profile = p1,
                            !.threads[tid] = Some([thread EXCEPT
                                !.context_switch_data = d2,
                                !.off_cpu_stack = <<>>])]
        ELSE [c2 EXCEPT !.threads[tid] = Some([thread EXCEPT
                 !.context_switch_data =
                     cs_handle_switch_out(c2.context_switch_handler, timestamp,
                         thread.context_switch_data)])]

----------------------------------------------------------------------------
(* Fork, Exit, Comm *)

set_process_start_time(profile, h, t) == [profile EXCEPT !.processes[h].start_time = t]
set_process_end_time(profile, h, t) == [profile EXCEPT !.processes[h].end_time = Some(t)]
set_process_name(profile, h, name) == [profile EXCEPT !.processes[h].name = name]
set_thread_start_time(profile, h, t) == [profile EXCEPT !.threads[h].start_time = t]
set_thread_end_time(profile, h, t) == [profile EXCEPT !.threads[h].end_time = Some(t)]
set_thread_name(profile, h, name) == [profile EXCEPT !.threads[h].name = Some(name)]

\* Converter::handle_thread_start
handle_thread_start(c, e) ==
    LET is_main == e.pid = e.tid
        start_time == convert_time(c.timestamp_converter, e.timestamp)
        c1 == get_by_pid(c, e.pid)
        process_handle == Val(c1.processes[e.pid]).profile_process
        c2 == IF is_main
              THEN [c1 EXCEPT !.profile = set_process_start_time(@, process_handle, start_time)]
              ELSE c1
        c3 == get_by_tid(c2, e.tid, process_handle, is_main)
        thread_handle == Val(c3.threads[e.tid]).profile_thread
    IN  [c3 EXCEPT !.profile = set_thread_start_time(@, thread_handle, start_time)]

\* The handler with the thread left in the registry
handle_thread_end_kept(c, e) ==
    LET is_main == e.pid = e.tid
        end_time == convert_time(c.timestamp_converter, e.timestamp)
        c1 == get_by_pid(c, e.pid)
        process_handle == Val(c1.processes[e.pid]).profile_process
        c2 == get_by_tid(c1, e.tid, process_handle, is_main)
        thread_handle == Val(c2.threads[e.tid]).profile_thread
        c3 == [c2 EXCEPT !.profile = set_thread_end_time(@, thread_handle, end_time)]
    IN  IF is_main
        THEN [c3 EXCEPT !.profile = set_process_end_time(@, process_handle, end_time),
                        !.processes[e.pid] = None]
        ELSE c3

\* Converter::handle_thread_end
handle_thread_end(c, e) ==
    LET is_main == e.pid = e.tid
        end_time == convert_time(c.timestamp_converter, e.timestamp)
        c1 == get_by_pid(c, e.pid)
        process_handle == Val(c1.processes[e.pid]).profile_process
        c2 == get_by_tid(c1, e.tid, process_handle, is_main)
        thread_handle == Val(c2.threads[e.tid]).profile_thread
        c3 == [c2 EXCEPT !.profile = set_thread_end_time(@, thread_handle, end_time),
                         !.threads[e.tid] = None]
    IN  IF is_main
        THEN [c3 EXCEPT !.profile = set_process_end_time(@, process_handle, end_time),
                        !.processes[e.pid] = None]
        ELSE c3

\* format!("{} on {} (perf version {})", name, host, perf_version)
product_string(name, host, perf_version) == <<name, " on ", host, " (perf version ", perf_version, ")">>

\* The block with the end put at the last sample's time, whatever the record's
end_for_exec_at_sample_time(c, e, timestamp) ==
    LET is_main == e.pid = e.tid
        time == convert_time(c.timestamp_converter, c.current_sample_time)
        c1 == IF IsSome(c.threads[e.tid])
              THEN [c EXCEPT !.profile = set_thread_end_time(@,
                                 Val(c.threads[e.tid]).profile_thread, time),
                             !.threads[e.tid] = None]
              ELSE c
    IN  IF is_main /\ IsSome(c1.processes[e.pid])
        THEN [c1 EXCEPT !.profile = set_process_end_time(@,
                            Val(c1.processes[e.pid]).profile_process, time),
                        !.processes[e.pid] = None]
        ELSE c1
\* The `if e.is_execve` block that ends the old thread and process
end_for_exec(c, e, timestamp) ==
    LET is_main == e.pid = e.tid
        ts == IF timestamp = Some(0) \/ timestamp = None
              THEN c.current_sample_time ELSE Val(timestamp)
        time == convert_time(c.timestamp_converter, ts)
        c1 == IF IsSome(c.threads[e.tid])
              THEN [c EXCEPT !.profile = set_thread_end_time(@,
                                 Val(c.threads[e.tid]).profile_thread, time),
                             !.threads[e.tid] = None]
              ELSE c
    IN  IF is_main /\ IsSome(c1.processes[e.pid])
        THEN [c1 EXCEPT !.profile = set_process_end_time(@,
                            Val(c1.processes[e.pid]).profile_process, time),
                        !.processes[e.pid] = None]
        ELSE c1

\* The handler with the product set by every name that is not perf-exec
handle_thread_name_update_every_name(c, e, timestamp) ==
    LET is_main == e.pid = e.tid
        c1 == IF e.is_execve THEN end_for_exec(c, e, timestamp) ELSE c
        c2 == get_by_pid(c1, e.pid)
        process_handle == Val(c2.processes[e.pid]).profile_process
        c3 == get_by_tid(c2, e.tid, process_handle, is_main)
        thread_handle == Val(c3.threads[e.tid]).profile_thread
        p1 == set_thread_name(c3.profile, thread_handle, e.name)
        p2 == IF is_main THEN set_process_name(p1, process_handle, e.name) ELSE p1
        time == convert_time(c3.timestamp_converter, c3.current_sample_time)
        p3 == IF e.is_execve THEN set_thread_start_time(p2, thread_handle, time) ELSE p2
        p4 == IF e.is_execve /\ is_main
              THEN set_process_start_time(p3, process_handle, time) ELSE p3
    IN  IF e.name # "perf-exec"
        THEN [c3 EXCEPT !.profile = [p4 EXCEPT !.product =
                                        product_string(e.name, c3.host, c3.perf_version)],
                        !.have_product_name = TRUE]
        ELSE [c3 EXCEPT !.profile = p4]

\* Converter::handle_thread_name_update
handle_thread_name_update(c, e, timestamp) ==
    LET is_main == e.pid = e.tid
        c1 == IF e.is_execve THEN end_for_exec(c, e, timestamp) ELSE c
        c2 == get_by_pid(c1, e.pid)
        process_handle == Val(c2.processes[e.pid]).profile_process
        c3 == get_by_tid(c2, e.tid, process_handle, is_main)
        thread_handle == Val(c3.threads[e.tid]).profile_thread
        p1 == set_thread_name(c3.profile, thread_handle, e.name)
        p2 == IF is_main THEN set_process_name(p1, process_handle, e.name) ELSE p1
        time == convert_time(c3.timestamp_converter, c3.current_sample_time)
        p3 == IF e.is_execve THEN set_thread_start_time(p2, thread_handle, time) ELSE p2
        p4 == IF e.is_execve /\ is_main
              THEN set_process_start_time(p3, process_handle, time) ELSE p3
    IN  IF ~c3.have_product_name /\ e.name # "perf-exec"
        THEN [c3 EXCEPT !.profile = [p4 EXCEPT !.product =
                                        product_string(e.name, c3.host, c3.perf_version)],
                        !.have_product_name = TRUE]
        ELSE [c3 EXCEPT !.profile = p4]

----------------------------------------------------------------------------
(* Mmap and Mmap2.  e.dso_key is DsoKey::detect(path, cpu_mode), None or    *)
(* Some(key); e.file is the filesystem's answer for the final path.         *)

KallsymsPaths == {"[kernel.kallsyms]", "[kernel.kallsyms]_text"}

\* The `if e.pid == -1` branch of handle_mmap
kernel_library(c, e, path, build_id) ==
    LibraryInfo(e.address, <<e.address, e.address + e.length>>,
        IF IsSome(build_id) THEN DebugId_from_identifier(Val(build_id)) ELSE DebugId_default,
        build_id, path,
        IF path \in KallsymsPaths /\ IsSome(c.linux_version)
        THEN <<"/usr/lib/debug/boot/vmlinux-", Val(c.linux_version)>>
        ELSE path)

\* get_by_pid, add_module_to_unwinder, add_lib: the tail shared by both handlers
load_module(c, e, path, build_id) ==
    LET c1 == get_by_pid(c, e.pid)
        process == Val(c1.processes[e.pid])
        r == add_module_to_unwinder(process.unwinder, path, e.file, e.page_offset,
                 e.address, e.length, build_id)
        c2 == [c1 EXCEPT !.processes[e.pid] = Some([process EXCEPT !.unwinder = r[1]])]
    IN  IF IsSome(r[2])
        THEN [c2 EXCEPT !.profile = add_lib(@, process.profile_process, Val(r[2]))]
        ELSE c2

\* Converter::handle_mmap
handle_mmap(c, e) ==
    IF ~e.is_executable THEN c
    ELSE IF ~IsSome(e.dso_key) THEN c
    ELSE LET dso_info == c.build_ids[Val(e.dso_key)]
             build_id == IF IsSome(dso_info) THEN Some(Val(dso_info).build_id) ELSE None
             path == IF IsSome(dso_info) THEN Val(dso_info).path ELSE e.path
         IN  IF e.pid = -1
             THEN [c EXCEPT !.kernel_modules = Append(@, kernel_library(c, e, path, build_id))]
             ELSE load_module(c, e, path, build_id)

PROT_EXEC == 4

\* The handler with every mapping taken as executable
handle_mmap2_any_protection(c, e) ==
    IF e.file_id[1] = "BuildId"
    THEN load_module(c, e, e.path, Some(e.file_id[2]))
    ELSE IF ~IsSome(e.dso_key) THEN c
    ELSE LET db == c.build_ids[Val(e.dso_key)]
         IN  load_module(c, e, e.path,
                 IF IsSome(db) THEN Some(Val(db).build_id) ELSE None)

\* Converter::handle_mmap2.  e.file_id is <<"BuildId", id>> or <<"InodeAndVersion">>.
handle_mmap2(c, e) ==
    IF (e.protection \div PROT_EXEC) % 2 = 0 THEN c
    ELSE IF e.file_id[1] = "BuildId"
         THEN load_module(c, e, e.path, Some(e.file_id[2]))
    ELSE IF ~IsSome(e.dso_key) THEN c
    ELSE LET db == c.build_ids[Val(e.dso_key)]
         IN  load_module(c, e, e.path,
                 IF IsSome(db) THEN Some(Val(db).build_id) ELSE None)

----------------------------------------------------------------------------
(* The inputs: recordings (file headers) and the records they may hold.     *)

Attr(type, policy, cs, name) ==
    [type |-> type, sampling_policy |-> policy, context_switch |-> cs, name |-> name]

SchedSwitchAttr == Attr("Tracepoint", <<"Period", 1>>, FALSE, Some("sched:sched_switch"))

\* attrs[0] of a recording: time-based by frequency, time-based by a clock
\* period, not time-based (a hardware event counted by period), not sampled
AttrFrequency == Attr("Hardware", <<"Frequency", 1000>>, TRUE, Some("cycles"))
AttrClockPeriod == Attr("SoftwareCpuClock", <<"Period", Ms(2)>>, FALSE, Some("cpu-clock"))
AttrCountPeriodCs == Attr("Hardware", <<"Period", 1000>>, TRUE, None)
AttrCountPeriod == Attr("Hardware", <<"Period", 1000>>, FALSE, Some("instructions"))
AttrNoSampling == Attr("Hardware", <<"NoSampling">>, FALSE, Some("cycles"))

DsoKeys == {"kernel", "libfoo"}
BuildIdTable == [k \in DsoKeys |->
                    IF k = "kernel"
                    THEN Some([build_id |-> "bid_k", path |-> "[kernel.kallsyms]"])
                    ELSE None]

Recording(scope_, a, first) ==
    [scope |-> scope_,
     attrs |-> <<a, SchedSwitchAttr>>,
     sample_time_range |-> first,
     hostname |-> "host", perf_version |-> "6.1", os_release |-> Some("6.1.0"),
     build_ids |-> BuildIdTable]

CoreRecordings ==
    { Recording("core", AttrFrequency, Some(Ms(2))),
      Recording("core", AttrClockPeriod, None),
      Recording("core", AttrCountPeriodCs, None),
      Recording("core", AttrCountPeriod, Some(Ms(2))),
      Recording("core", AttrNoSampling, None) }

Pairs == {<<1, 1>>, <<1, 2>>}
Times == {Ms(1), Ms(2), Ms(3)}

\* Sample payloads: callchain, registers and user stack with what unwinding
\* them yields, cpu mode, ip, period
NoFrames == [frames |-> <<>>, err |-> FALSE]
ShapeChain ==
    [callchain |-> Some(<<16, PERF_CONTEXT_KERNEL, 32, PERF_CONTEXT_USER, 48>>),
     user_regs |-> FALSE, user_stack |-> FALSE, unwind |-> NoFrames,
     cpu_mode |-> "User", ip |-> Some(16), period |-> Some(7)]
ShapeIp ==
    [callchain |-> None, user_regs |-> FALSE, user_stack |-> FALSE, unwind |-> NoFrames,
     cpu_mode |-> "Kernel", ip |-> Some(64),
     period |-> None]
ShapeOf(tid) == IF tid = 1 THEN ShapeChain ELSE ShapeIp

SampleRec(attr_index, pid, tid, timestamp, shape) ==
    [kind |-> "Sample", attr_index |-> attr_index, timestamp |-> timestamp,
     e |-> [pid |-> pid, tid |-> tid, timestamp |-> timestamp,
            callchain |-> shape.callchain, user_regs |-> shape.user_regs,
            user_stack |-> shape.user_stack, unwind |-> shape.unwind,
            cpu_mode |-> shape.cpu_mode, ip |-> shape.ip, period |-> shape.period]]

CoreSamples ==
    { SampleRec(0, Some(pt[1]), Some(pt[2]), Some(t), ShapeOf(pt[2])) :
          pt \in Pairs, t \in Times }
    \cup { SampleRec(0, Some(1), Some(1), None, ShapeIp) }
    \cup { SampleRec(1, Some(1), Some(1), Some(Ms(1)), ShapeChain) }
    \cup { SampleRec(2, Some(1), Some(1), Some(Ms(1)), ShapeIp) }

ContextSwitchRec(in, pid, tid, timestamp, common_ok) ==
    [kind |-> "ContextSwitch", timestamp |-> timestamp, e |-> [in |-> in],
     common_ok |-> common_ok,
     common |-> [pid |-> pid, tid |-> tid, timestamp |-> timestamp]]

CoreContextSwitches ==
    { ContextSwitchRec(FALSE, Some(1), Some(1), Some(t), TRUE) : t \in {Ms(1), Ms(2)} }
    \cup { ContextSwitchRec(TRUE, Some(1), Some(1), Some(t), TRUE) : t \in {Ms(2), Ms(3)} }
    \cup { ContextSwitchRec(TRUE, Some(1), Some(1), Some(Ms(1)), FALSE) }

ForkOrExitRec(kind, pid, tid, timestamp) ==
    [kind |-> kind, timestamp |-> Some(timestamp),
     e |-> [pid |-> pid, tid |-> tid, timestamp |-> timestamp]]

CoreForks == { ForkOrExitRec("Fork", 1, 2, Ms(1)) }
CoreExits == { ForkOrExitRec("Exit", 1, 1, Ms(3)) }

CommRec(pid, tid, timestamp, name, is_execve) ==
    [kind |-> "Comm", timestamp |-> timestamp,
     e |-> [pid |-> pid, tid |-> tid, name |-> name, is_execve |-> is_execve]]

CoreComms == { CommRec(1, 1, None, "ls", TRUE) }

\* Object files on disk
ObjText(build_id, debug_id) ==
    [mmap_ok |-> TRUE, parse_ok |-> TRUE, build_id |-> build_id, debug_id |-> debug_id,
     is_elf |-> TRUE,
     sections |-> <<[kind |-> "Text", file_range |-> Some(<<16, 16>>), address |-> 24]>>,
     segments |-> <<>>]

MmapRec(pid, is_executable, path, dso_key, file) ==
    [kind |-> "Mmap", timestamp |-> None,
     e |-> [pid |-> pid, is_executable |-> is_executable, path |-> path,
            dso_key |-> dso_key, file |-> file,
            page_offset |-> 16, address |-> 64, length |-> 32]]

CoreMmaps == { MmapRec(-1, TRUE, "[kernel.kallsyms]_text", Some("kernel"), None) }

Mmap2Rec(pid, protection, path, dso_key, file_id, file) ==
    [kind |-> "Mmap2", timestamp |-> None,
     e |-> [pid |-> pid, protection |-> protection, path |-> path,
            dso_key |-> dso_key, file_id |-> file_id, file |-> file,
            page_offset |-> 16, address |-> 64, length |-> 32]]

CoreMmap2s ==
    { Mmap2Rec(1, 5, "/lib/libfoo.so", Some("libfoo"), <<"BuildId", "bid_f">>,
               Some(ObjText(Some("bid_f"), Some("dbg")))) }

OtherRecs == { [kind |-> "Other", timestamp |-> Some(Ms(1))] }
SkippedRecs == { [kind |-> "ParseError"], [kind |-> "UserRecord"] }

\* Records that are fatal to their handlers, and mappings whose module fails
\* to load, next to ones that are handled
FaultRecordings == { Recording("faults", AttrFrequency, Some(Ms(1))) }

FaultSamples ==
    { SampleRec(0, Some(1), Some(1), Some(Ms(1)), ShapeChain),
      SampleRec(0, None, Some(2), Some(Ms(2)), ShapeIp),
      SampleRec(0, Some(1), None, Some(Ms(2)), ShapeIp),
      SampleRec(0, Some(1), Some(2), None, ShapeIp),
      SampleRec(1, Some(1), Some(1), Some(Ms(1)), ShapeChain),
      SampleRec(1, Some(1), None, Some(Ms(1)), ShapeChain) }

FaultContextSwitches ==
    { ContextSwitchRec(FALSE, Some(1), Some(1), Some(Ms(1)), TRUE),
      ContextSwitchRec(TRUE, Some(1), Some(1), Some(Ms(2)), TRUE),
      ContextSwitchRec(TRUE, Some(1), Some(2), None, TRUE),
      ContextSwitchRec(TRUE, Some(1), Some(1), Some(Ms(1)), FALSE) }

\* an object that is neither ELF nor has a text section: no bias is found
ObjNoBias(build_id) ==
    [mmap_ok |-> TRUE, parse_ok |-> TRUE, build_id |-> build_id, debug_id |-> Some("dbg"),
     is_elf |-> FALSE, sections |-> <<>>, segments |-> <<>>]

\* an ELF object with an executable PT_LOAD segment over the mapping, and
\* with no build ID and no text section: debug_id_for_object answers None
ObjNoDebugId ==
    [mmap_ok |-> TRUE, parse_ok |-> TRUE, build_id |-> None, debug_id |-> None,
     is_elf |-> TRUE, sections |-> <<>>,
     segments |-> <<[kind |-> "Load", flags |-> 5, file_range |-> Some(<<16, 8>>),
                     address |-> 40, size |-> 48]>>]

FaultMmaps ==
    { MmapRec(-1, TRUE, "[kernel.kallsyms]_text", Some("kernel"), None),
      MmapRec(1, TRUE, "/lib/libfoo.so", Some("libfoo"), None),
      MmapRec(2, TRUE, "/lib/libfoo.so", Some("libfoo"), Some(ObjNoBias(None))),
      MmapRec(1, TRUE, "/lib/libfoo.so", Some("libfoo"), Some(ObjNoDebugId)) }

FaultMmap2s ==
    { Mmap2Rec(1, 5, path, Some("libfoo"), <<"BuildId", "bid_f">>, file) :
        path \in {"/lib/libfoo.so"},
        file \in { Some(ObjText(Some("bid_f"), Some("dbg"))),
                   Some(ObjText(Some("bid_x"), Some("dbg"))),
                   Some(ObjText(None, Some("dbg"))),
                   Some(ObjNoBias(Some("bid_f"))),
                   None } }
    \cup { Mmap2Rec(2, 5, "[vdso]", Some("libfoo"), <<"BuildId", "bid_v">>, None) }

\* Every sampling policy and event type of attrs[0], over a few records
PolicyAttrs ==
    { Attr(type, policy, TRUE, Some("event")) :
        type \in {"Hardware", "SoftwareCpuClock", "SoftwareTaskClock",
                  "SoftwarePageFaults", "Tracepoint"},
        policy \in {<<"NoSampling">>, <<"Frequency", 0>>, <<"Frequency", 3>>,
                    <<"Frequency", 1000>>, <<"Frequency", 1000000000>>,
                    <<"Period", 1000>>, <<"Period", Ms(2)>>} }

PolicyRecordings == { Recording("policy", a, None) : a \in PolicyAttrs }

\* a switch-out at 10 ms and a switch-in at 13.5 ms, with samples before
\* and after
PolicySamples ==
    { SampleRec(0, Some(1), Some(1), Some(Ms(2)), ShapeChain),
      SampleRec(0, Some(1), Some(1), Some(13500000), ShapeChain),
      SampleRec(1, Some(1), Some(1), Some(Ms(1)), ShapeChain) }

PolicyContextSwitches ==
    { ContextSwitchRec(FALSE, Some(1), Some(1), Some(Ms(10)), TRUE),
      ContextSwitchRec(TRUE, Some(1), Some(1), Some(13500000), TRUE) }

\* Threads and processes that start, exec and exit, and mappings of every
\* sort: kernel and user, executable or not, with and without a known DSO
LifeRecordings ==
    { Recording("life", AttrFrequency, Some(Ms(1))),
      [Recording("life", AttrFrequency, None) EXCEPT !.os_release = None] }

LifeRecords(kind) ==
    CASE kind = "Sample" ->
            { SampleRec(0, Some(1), Some(1), Some(Ms(2)), ShapeIp),
              SampleRec(0, Some(1), Some(2), Some(Ms(3)), ShapeIp),
              SampleRec(1, Some(1), Some(1), Some(Ms(2)), ShapeChain) }
      [] kind = "ContextSwitch" ->
            { ContextSwitchRec(FALSE, Some(1), Some(1), Some(Ms(2)), TRUE) }
      [] kind = "Fork" -> { ForkOrExitRec("Fork", 1, 2, Ms(1)) }
      [] kind = "Exit" ->
            { ForkOrExitRec("Exit", 1, 1, Ms(3)), ForkOrExitRec("Exit", 1, 2, Ms(3)) }
      [] kind = "Comm" ->
            { CommRec(1, 1, Some(Ms(5)), "ls", TRUE),
              CommRec(1, 1, None, "perf-exec", TRUE),
              CommRec(1, 2, Some(0), "worker", TRUE),
              CommRec(1, 1, Some(Ms(3)), "cat", FALSE) }
      [] kind = "Mmap" ->
            { MmapRec(-1, TRUE, "[kernel.kallsyms]_text", Some("kernel"), None),
              MmapRec(-1, TRUE, "/lib/modules/foo.ko", Some("libfoo"), None),
              MmapRec(-1, TRUE, "//anon", None, None),
              MmapRec(-1, FALSE, "[kernel.kallsyms]_text", Some("kernel"), None),
              MmapRec(2, FALSE, "/lib/libfoo.so", Some("libfoo"), None),
              MmapRec(1, TRUE, "/lib/libfoo.so", Some("libfoo"), None) }
      [] kind = "Mmap2" ->
            { Mmap2Rec(-1, 5, "[kernel.kallsyms]_text", Some("kernel"),
                       <<"BuildId", "bid_k">>, None),
              Mmap2Rec(1, 3, "/lib/libfoo.so", Some("libfoo"), <<"BuildId", "bid_f">>,
                       Some(ObjText(Some("bid_f"), Some("dbg")))),
              Mmap2Rec(2, 1, "/lib/libfoo.so", Some("libfoo"), <<"InodeAndVersion">>, None),
              Mmap2Rec(1, 5, "/lib/libfoo.so", Some("libfoo"), <<"BuildId", "bid_f">>,
                       Some(ObjText(Some("bid_f"), Some("dbg")))),
              Mmap2Rec(2, 7, "//anon", None, <<"InodeAndVersion">>, None) }
      [] kind = "Other" -> OtherRecs
      [] OTHER -> SkippedRecs

Records(scope_, kind) ==
    IF scope_ = "life" THEN LifeRecords(kind) ELSE
    CASE kind = "Sample" ->
            CASE scope_ = "faults" -> FaultSamples
              [] scope_ = "policy" -> PolicySamples
              [] OTHER -> CoreSamples
      [] kind = "ContextSwitch" ->
            CASE scope_ = "faults" -> FaultContextSwitches
              [] scope_ = "policy" -> PolicyContextSwitches
              [] OTHER -> CoreContextSwitches
      [] kind = "Fork" -> CoreForks
      [] kind = "Exit" -> CoreExits
      [] kind = "Comm" -> CoreComms
      [] kind = "Mmap" -> IF scope_ = "faults" THEN FaultMmaps ELSE CoreMmaps
      [] kind = "Mmap2" -> IF scope_ = "faults" THEN FaultMmap2s ELSE CoreMmap2s
      [] kind = "Other" -> OtherRecs
      [] OTHER -> SkippedRecs

----------------------------------------------------------------------------
(* convert(): construction, then one step per record of the input.          *)

PxIdle == [phase |-> "idle"]

InitWith(recordings) ==
    /\ pc = "start"
    /\ recording \in recordings
    /\ interpretation = None
    /\ converter = None
    /\ last_timestamp = 0
    /\ diagnostics = 0
    /\ hist = <<>>
    /\ px = PxIdle

Init == InitWith(CoreRecordings)
InitPolicy == InitWith(PolicyRecordings)
InitLife == InitWith(LifeRecordings)

\* `first_sample_time`: sample_time_range().map_or(0, |r| r.first_sample_time)
first_sample_time_of(rec) ==
    IF IsSome(rec.sample_time_range) THEN Val(rec.sample_time_range) ELSE 0

Construct ==
    /\ pc = "start"
    /\ LET d == divine_from_attrs(recording.attrs)
       IN  IF d[1] = "panic"
           THEN /\ pc' = "failed"
                /\ UNCHANGED <<interpretation, converter>>
           ELSE /\ pc' = "run"
                /\ interpretation' = d[2]
                /\ converter' = Converter_new("Converted perf profile",
                                    recording.build_ids, first_sample_time_of(recording),
                                    recording.hostname, recording.perf_version,
                                    recording.os_release, d[2])
    /\ UNCHANGED <<recording, last_timestamp, diagnostics, hist, px>>

\* What hist keeps of a record: the record, and how many samples, processes
\* and kernel modules there are once it has been handled
HistEntry(r, c) ==
    [rec |-> r, n |-> Len(c.profile.samples), np |-> Len(c.profile.processes),
     nk |-> Len(c.kernel_modules)]

\* The loop body with the latest timestamp kept as the greatest one seen
Consume_reconciling(r, outcome) ==
    /\ IF "timestamp" \in DOMAIN r /\ IsSome(r.timestamp)
       THEN /\ diagnostics' = IF Val(r.timestamp) < last_timestamp
                              THEN diagnostics + 1 ELSE diagnostics
            /\ last_timestamp' = Max(last_timestamp, Val(r.timestamp))
       ELSE UNCHANGED <<last_timestamp, diagnostics>>
    /\ IF outcome[1] = "panic"
       THEN /\ pc' = "aborted"
            /\ converter' = IF Len(outcome) = 2 THEN outcome[2] ELSE converter
       ELSE /\ pc' = pc
            /\ converter' = outcome[2]
    /\ hist' = Append(hist, HistEntry(r, converter'))
    /\ UNCHANGED <<recording, interpretation, px>>

\* The head of the loop body for a parsed record r, then the handler's result:
\* outcome is <<"ok", converter after>>, or <<"panic">> with, where it may
\* differ from the converter before, the converter as the panic leaves it.
Consume(r, outcome) ==
    /\ IF "timestamp" \in DOMAIN r /\ IsSome(r.timestamp)
       THEN /\ diagnostics' = IF Val(r.timestamp) < last_timestamp
                              THEN diagnostics + 1 ELSE diagnostics
            /\ last_timestamp' = Val(r.timestamp)
       ELSE UNCHANGED <<last_timestamp, diagnostics>>
    /\ IF outcome[1] = "panic"
       THEN /\ pc' = "aborted"
            /\ converter' = IF Len(outcome) = 2 THEN outcome[2] ELSE converter
       ELSE /\ pc' = pc
            /\ converter' = outcome[2]
    /\ hist' = Append(hist, HistEntry(r, converter'))
    /\ UNCHANGED <<recording, interpretation, px>>

CanRead == pc = "run" /\ Len(hist) < MaxRecords

\* `Err(_) => continue` and `UserRecord(_) => continue`
SkipRecordBreaks ==
    /\ CanRead
    /\ \E r \in Records(recording.scope, "Skipped") :
        /\ hist' = Append(hist, HistEntry(r, converter))
        /\ pc' = IF r.kind = "ParseError" THEN "done" ELSE pc
        /\ UNCHANGED <<recording, interpretation, converter, last_timestamp,
                       diagnostics, px>>
SkipRecord ==
    /\ CanRead
    /\ \E r \in Records(recording.scope, "Skipped") :
        /\ hist' = Append(hist, HistEntry(r, converter))
        /\ UNCHANGED <<pc, recording, interpretation, converter, last_timestamp,
                       diagnostics, px>>

dispatch_sample(c, interp, r) ==
    IF r.attr_index = interp.main_event_attr_index
    THEN IF sample_panics(r.e) THEN <<"panic", sample_expects(c, r.e)>>
         ELSE <<"ok", handle_sample(c, r.e)>>
    ELSE IF interp.sched_switch_attr_index = Some(r.attr_index)
    THEN IF sched_switch_panics(r.e) THEN <<"panic">>
         ELSE <<"ok", handle_sched_switch(c, r.e)>>
    ELSE <<"ok", c>>

SampleRecord ==
    /\ CanRead
    /\ \E r \in Records(recording.scope, "Sample") :
        Consume(r, dispatch_sample(converter, interpretation, r))

ForkRecord ==
    /\ CanRead
    /\ \E r \in Records(recording.scope, "Fork") :
        Consume(r, <<"ok", handle_thread_start(converter, r.e)>>)

CommRecord ==
    /\ CanRead
    /\ \E r \in Records(recording.scope, "Comm") :
        Consume(r, <<"ok", handle_thread_name_update(converter, r.e, r.timestamp)>>)

ExitRecord ==
    /\ CanRead
    /\ \E r \in Records(recording.scope, "Exit") :
        Consume(r, <<"ok", handle_thread_end(converter, r.e)>>)

MmapRecord ==
    /\ CanRead
    /\ \E r \in Records(recording.scope, "Mmap") :
        Consume(r, <<"ok", handle_mmap(converter, r.e)>>)

Mmap2Record ==
    /\ CanRead
    /\ \E r \in Records(recording.scope, "Mmap2") :
        Consume(r, <<"ok", handle_mmap2(converter, r.e)>>)

dispatch_context_switch(c, r) ==
    IF ~r.common_ok THEN <<"ok", c>>
    ELSE IF context_switch_panics(r.common) THEN <<"panic">>
    ELSE <<"ok", handle_context_switch(c, r.e, r.common)>>

ContextSwitchRecord ==
    /\ CanRead
    /\ \E r \in Records(recording.scope, "ContextSwitch") :
        Consume(r, dispatch_context_switch(converter, r))

\* `_ => {}`
OtherRecord ==
    /\ CanRead
    /\ \E r \in Records(recording.scope, "Other") : Consume(r, <<"ok", converter>>)

\* The `while let Ok(Some(record)) = record_iter.next_record(..)` ends, and
\* converter.finish() follows, when the reader answers Ok(None) or Err(_)
Finish(result) ==
    /\ CanRead
    /\ pc' = "done"
    /\ hist' = Append(hist, HistEntry([kind |-> result], converter))
    /\ UNCHANGED <<recording, interpretation, converter, last_timestamp, diagnostics, px>>

EndOfInput == Finish("EndOfInput")

ReadError == Finish("ReadError")

Next ==
    \/ Construct
    \/ SkipRecord
    \/ SampleRecord
    \/ ForkRecord
    \/ CommRecord
    \/ ExitRecord
    \/ MmapRecord
    \/ Mmap2Record
    \/ ContextSwitchRecord
    \/ OtherRecord
    \/ EndOfInput
    \/ ReadError

Spec == Init /\ [][Next]_vars

InitFaults == InitWith(FaultRecordings)

SpecFaults == InitFaults /\ [][Next]_vars
SpecPolicy == InitPolicy /\ [][Next]_vars
SpecLife == InitLife /\ [][Next]_vars

----------------------------------------------------------------------------
(* main(): the command line, the perf file and its architecture, then       *)
(* convert() with the register decoding and unwinder of that architecture,  *)
(* then the output file.  px holds main's locals:                           *)
(*   args   the number of arguments after the program name                  *)
(*   file   whether the path can be canonicalized, opened and parsed        *)
(*   arch   the result of perf_file.arch(): <<"Err">> or <<"Ok", option>>   *)
(*   output whether profile-conv.json can be created and written            *)
(* and what main has done: eprintln lines, the convert instantiation, and   *)
(* how the process ended (<<"exit", code>>, <<"panic">>, None while running) *)

Exit(code) == <<"exit", code>>
Panic == <<"panic">>

Instantiation(arch) ==
    Some([unwinder |-> "Unwinder" \o arch, regs |-> "ConvertRegs" \o arch,
          cache |-> "Cache" \o arch])

\* The arms in another form: an architecture without an unwinder is refused
main_until_convert_supported_only(args, file, arch) ==
    IF args < 1 THEN [eprintln |-> <<"Usage">>, convert |-> None, ended |-> Exit(1)]
    ELSE IF ~file THEN [eprintln |-> <<>>, convert |-> None, ended |-> Panic]
    ELSE IF arch = <<"Err">> THEN [eprintln |-> <<>>, convert |-> None, ended |-> Panic]
    ELSE IF arch[2] = Some("x86_64")
         THEN [eprintln |-> <<>>, convert |-> Instantiation("X86_64"), ended |-> None]
    ELSE IF arch[2] = Some("aarch64")
         THEN [eprintln |-> <<>>, convert |-> Instantiation("Aarch64"), ended |-> None]
    ELSE [eprintln |-> <<"Can't unwind because I don't know the arch">>,
          convert |-> None, ended |-> Exit(1)]
\* main, up to the call of convert
main_until_convert(args, file, arch) ==
    IF args < 1 THEN [eprintln |-> <<"Usage">>, convert |-> None, ended |-> Exit(1)]
    ELSE IF ~file THEN [eprintln |-> <<>>, convert |-> None, ended |-> Panic]
    ELSE IF arch = <<"Err">> THEN [eprintln |-> <<>>, convert |-> None, ended |-> Panic]
    ELSE IF arch[2] = Some("x86_64")
         THEN [eprintln |-> <<>>, convert |-> Instantiation("X86_64"), ended |-> None]
    ELSE IF arch[2] = Some("aarch64")
         THEN [eprintln |-> <<>>, convert |-> Instantiation("Aarch64"), ended |-> None]
    ELSE IF IsSome(arch[2])
         THEN [eprintln |-> <<"Unsupported arch">>,
               convert |-> Instantiation("X86_64"), ended |-> None]
    ELSE [eprintln |-> <<"Can't unwind because I don't know the arch">>,
          convert |-> None, ended |-> Exit(1)]

MainArchs == {<<"Err">>, <<"Ok", None>>, <<"Ok", Some("x86_64")>>,
              <<"Ok", Some("aarch64")>>, <<"Ok", Some("riscv64")>>}

MainRecordings ==
    { Recording("policy", AttrFrequency, None), Recording("policy", AttrNoSampling, None) }

InitMain ==
    /\ pc = "main"
    /\ px \in [phase : {"main"}, args : {0, 1, 2}, file : BOOLEAN, arch : MainArchs,
                output : BOOLEAN]
    /\ recording \in MainRecordings
    /\ interpretation = None
    /\ converter = None
    /\ last_timestamp = 0
    /\ diagnostics = 0
    /\ hist = <<>>

Main ==
    /\ pc = "main"
    /\ LET m == main_until_convert(px.args, px.file, px.arch)
       IN  /\ px' = [phase |-> IF m.ended = None THEN "convert" ELSE "ended",
                     args |-> px.args, file |-> px.file, arch |-> px.arch,
                     output |-> px.output, eprintln |-> m.eprintln,
                     convert |-> m.convert, ended |-> m.ended]
           /\ pc' = IF m.ended = None THEN "start" ELSE "exited"
    /\ UNCHANGED <<recording, interpretation, converter, last_timestamp, diagnostics, hist>>

\* convert has returned the profile: write profile-conv.json and return
MainSave ==
    /\ pc = "done"
    /\ px.phase = "convert"
    /\ pc' = "exited"
    /\ px' = [px EXCEPT !.phase = "ended",
                        !.eprintln = IF px.output THEN Append(@, "Saved converted profile")
                                     ELSE @,
                        !.ended = IF px.output THEN Exit(0) ELSE Panic]
    /\ UNCHANGED <<recording, interpretation, converter, last_timestamp, diagnostics, hist>>

\* a panic inside convert ends the process
MainPanicked ==
    /\ pc \in {"failed", "aborted"}
    /\ px.phase = "convert"
    /\ pc' = "exited"
    /\ px' = [px EXCEPT !.phase = "ended", !.ended = Panic]
    /\ UNCHANGED <<recording, interpretation, converter, last_timestamp, diagnostics, hist>>

NextMain ==
    \/ Main
    \/ Construct
    \/ SkipRecord
    \/ SampleRecord
    \/ ForkRecord
    \/ CommRecord
    \/ ExitRecord
    \/ MmapRecord
    \/ Mmap2Record
    \/ ContextSwitchRecord
    \/ OtherRecord
    \/ EndOfInput
    \/ ReadError
    \/ MainSave
    \/ MainPanicked

SpecMain == InitMain /\ [][NextMain]_vars

----------------------------------------------------------------------------
(* The stack path on its own: a sample's payload goes through                *)
(* get_sample_stack, and the stack through convert_stack (an on-CPU sample's *)
(* frames) or convert_stack_no_kernel (the stack kept at a sched_switch).    *)

MaxChain == 3
MaxUnwound == 2

\* two addresses, two context markers, and -32 (PERF_CONTEXT_HV), a word at or
\* above PERF_CONTEXT_MAX that from_context_frame does not know
ChainWords == {16, 32, PERF_CONTEXT_KERNEL, PERF_CONTEXT_USER, -32}
Chains == UNION { [1..n -> ChainWords] : n \in 0..MaxChain }

\* [0x1000, KERNEL, 0x7FFF_0001, USER, 0x2000]: user, kernel and user frames
\* between the host's markers (the kernel address is a 31-bit one)
ExampleChain == <<4096, PERF_CONTEXT_KERNEL, 2147418113, PERF_CONTEXT_USER, 8192>>

\* longer chains: the example, and frames after each of the guest's markers
MarkedChains ==
    { ExampleChain }
    \cup { <<PERF_CONTEXT_KERNEL, 16, m, 32>> :
              m \in {PERF_CONTEXT_GUEST, PERF_CONTEXT_GUEST_KERNEL, PERF_CONTEXT_GUEST_USER} }
    \cup { <<m, PERF_CONTEXT_MAX, 16>> :
              m \in {PERF_CONTEXT_GUEST, PERF_CONTEXT_GUEST_KERNEL, PERF_CONTEXT_GUEST_USER} }

\* what iter_frames yields: the pc as InstructionPointer, then return addresses
UnwoundFrames(n) ==
    [i \in 1..n |-> IF i = 1 THEN [kind |-> "IP", addr |-> 48]
                    ELSE [kind |-> "RA", addr |-> 48 + 8 * (i - 1)]]
Unwinds == { [frames |-> UnwoundFrames(n), err |-> b] : n \in 0..MaxUnwound, b \in BOOLEAN }

StackSamples ==
    { [pid |-> Some(1), tid |-> Some(1), timestamp |-> Some(Ms(1)), period |-> None,
       callchain |-> cc, user_regs |-> regs, user_stack |-> ustack, unwind |-> u,
       cpu_mode |-> m, ip |-> ip] :
        cc \in {None} \cup { Some(c) : c \in Chains \cup MarkedChains },
        regs \in BOOLEAN, ustack \in BOOLEAN, u \in Unwinds,
        m \in {"User", "Kernel"},
        ip \in {None, Some(64)} }

PureInit(first) ==
    /\ pc = "pure"
    /\ px = first
    /\ recording = [scope |-> "pure"]
    /\ interpretation = None
    /\ converter = None
    /\ last_timestamp = 0
    /\ diagnostics = 0
    /\ hist = <<>>

PureStep(next) ==
    /\ pc = "pure"
    /\ px' = next
    /\ UNCHANGED <<pc, recording, interpretation, converter, last_timestamp,
                   diagnostics, hist>>

InitStack == \E e \in StackSamples : PureInit([phase |-> "sample", e |-> e])

\* Self::get_sample_stack::<C>(&e, ..., &mut stack)
ReconstructStack ==
    /\ px.phase = "sample"
    /\ PureStep([phase |-> "stack", e |-> px.e, stack |-> get_sample_stack(px.e)])

\* let frames = self.stack_converter.convert_stack(stack)
EmitFrames ==
    /\ px.phase = "stack"
    /\ PureStep([phase |-> "frames", e |-> px.e, stack |-> px.stack,
                 frames |-> convert_stack(px.stack)])

\* let stack = self.stack_converter.convert_stack_no_kernel(&stack)
KeepOffCpuStack ==
    /\ px.phase = "stack"
    /\ PureStep([phase |-> "off_cpu_stack", e |-> px.e, stack |-> px.stack,
                 frames |-> convert_stack_no_kernel(px.stack)])

NextStack ==
    \/ ReconstructStack
    \/ EmitFrames
    \/ KeepOffCpuStack

SpecStack == InitStack /\ [][NextStack]_vars

----------------------------------------------------------------------------
(* compute_image_bias on its own: an object file and a mapping of it *)

MaxSections == 2
MaxSegments == 2

Section(kind, file_range, address) ==
    [kind |-> kind, file_range |-> file_range, address |-> address]
Segment(kind, flags, file_range, address, size) ==
    [kind |-> kind, flags |-> flags, file_range |-> file_range, address |-> address,
     size |-> size]

SectionChoices ==
    { Section("Text", Some(<<16, 16>>), 24),
      Section("Text", Some(<<32, 16>>), 200),
      Section("Text", Some(<<0, 64>>), 8),
      Section("Text", None, 0),
      Section("Data", Some(<<16, 8>>), 40) }

\* flags are p_flags: PF_X = 1, PF_W = 2, PF_R = 4
SegmentChoices ==
    { Segment("Load", 5, Some(<<0, 32>>), 8, 32),
      Segment("Load", 5, Some(<<16, 8>>), 40, 48),
      Segment("Load", 6, Some(<<16, 16>>), 72, 16),
      Segment("Dynamic", 5, Some(<<16, 16>>), 72, 16),
      Segment("Load", 5, Some(<<32, 16>>), 200, 16) }

ObjectFiles ==
    { [is_elf |-> b, sections |-> ss, segments |-> gs] :
        b \in BOOLEAN,
        ss \in UNION { [1..n -> SectionChoices] : n \in 0..MaxSections },
        gs \in UNION { [1..n -> SegmentChoices] : n \in 0..MaxSegments } }

Mappings ==
    { [file_offset |-> o, avma |-> 64, size |-> z] : o \in {16, 32}, z \in {16, 32} }

InitBias ==
    \E f \in ObjectFiles, m \in Mappings :
        PureInit([phase |-> "mapping", file |-> f, mapping |-> m])

\* compute_image_bias(&file, mapping_start_file_offset, mapping_start_avma, mapping_size, path)
ComputeImageBias ==
    /\ px.phase = "mapping"
    /\ PureStep([phase |-> "bias", file |-> px.file, mapping |-> px.mapping,
                 bias |-> compute_image_bias(px.file, px.mapping.file_offset,
                              px.mapping.avma, px.mapping.size)])

NextBias == ComputeImageBias

SpecBias == InitBias /\ [][NextBias]_vars

----------------------------------------------------------------------------
(* Vocabulary of the properties *)

Built == pc \in {"run", "aborted", "done"}

OutSamples == converter.profile.samples
Ref == converter.timestamp_converter.reference_ns
\* max(0, ktime - reference)
SatRef(ktime) == Max(0, ktime - Ref)

SamplesBefore(i) == IF i = 1 THEN 0 ELSE hist[i - 1].n
ProcessesBefore(i) == IF i = 1 THEN 0 ELSE hist[i - 1].np
KernelModulesBefore(i) == IF i = 1 THEN 0 ELSE hist[i - 1].nk
\* the indices of the samples appended while record i was handled
EmittedBy(i) == (SamplesBefore(i) + 1)..hist[i].n

IsMainSample(r) ==
    /\ r.kind = "Sample"
    /\ r.attr_index = interpretation.main_event_attr_index
    /\ ~sample_panics(r.e)
IsSwitch(r) == r.kind = "ContextSwitch" /\ r.common_ok /\ ~context_switch_panics(r.common)
IsSwitchOut(r) == IsSwitch(r) /\ ~r.e.in

\* the records that carry a time into a thread's off-CPU accounting
IsTimed(r) == IsMainSample(r) \/ IsSwitch(r)
TimedTid(r) == IF r.kind = "Sample" THEN Val(r.e.tid) ELSE Val(r.common.tid)

OnCpuCount(idx) == Cardinality({k \in idx : OutSamples[k].site = "on_cpu"})

----------------------------------------------------------------------------
\* C1: two consecutive main-event Sample records with the same tid and the
\* same timestamp: handling the second appends nothing to the sample stream,
\* and the pair yields exactly one on-CPU sample (none at all when an earlier
\* sample of that tid and timestamp had already produced it).
SameSample(i, j) ==
    /\ IsMainSample(hist[i].rec) /\ IsMainSample(hist[j].rec)
    /\ hist[i].rec.e.tid = hist[j].rec.e.tid
    /\ hist[i].rec.e.timestamp = hist[j].rec.e.timestamp

C1_DuplicateSuppression ==
    Built =>
        \A i \in 2..Len(hist) :
            SameSample(i - 1, i) =>
                /\ hist[i].n = hist[i - 1].n
                /\ OnCpuCount(EmittedBy(i - 1) \cup EmittedBy(i)) <= 1
                /\ (\A j \in 1..(i - 2) : ~SameSample(j, i))
                       => OnCpuCount(EmittedBy(i - 1) \cup EmittedBy(i)) = 1

C1_Witness ==
    /\ Built
    /\ \E i \in 2..Len(hist) :
        /\ SameSample(i - 1, i)
        /\ hist[i - 1].n >= SamplesBefore(i - 1) + 2
        /\ hist[i].n = hist[i - 1].n

----------------------------------------------------------------------------
\* C2, as stated: for every input, the timestamps of the samples of any one
\* thread are non-decreasing in emission order.
C2_MonotonicForAllInputs ==
    Built =>
        \A i, j \in 1..Len(OutSamples) :
            (i < j /\ OutSamples[i].thread = OutSamples[j].thread)
                => OutSamples[i].timestamp <= OutSamples[j].timestamp

\* the timed records of a tid arrive in non-decreasing time order
TidInOrder(tid) ==
    \A i, j \in 1..Len(hist) :
        (i < j /\ IsTimed(hist[i].rec) /\ IsTimed(hist[j].rec)
           /\ TimedTid(hist[i].rec) = tid /\ TimedTid(hist[j].rec) = tid)
            => Val(hist[i].rec.timestamp) <= Val(hist[j].rec.timestamp)

\* C2, amended: the timestamps of a thread's samples (on-CPU and off-CPU) are
\* non-decreasing in emission order provided the main-event samples and
\* context switches of its tid arrive in non-decreasing time order.
C2_MonotonicWhenInputOrdered ==
    Built =>
        \A i, j \in 1..Len(OutSamples) :
            (/\ i < j
             /\ OutSamples[i].thread = OutSamples[j].thread
             /\ TidInOrder(converter.profile.threads[OutSamples[i].thread].tid))
                => OutSamples[i].timestamp <= OutSamples[j].timestamp

C2_Witness ==
    /\ Built
    /\ \E i, j \in 1..Len(OutSamples) :
        /\ i < j
        /\ OutSamples[i].thread = OutSamples[j].thread
        /\ OutSamples[i].site = "on_cpu"
        /\ OutSamples[j].site = "off_begin"
        /\ OutSamples[i].timestamp < OutSamples[j].timestamp
        /\ TidInOrder(converter.profile.threads[OutSamples[i].thread].tid)

----------------------------------------------------------------------------
\* What C3 says of record i, a main-event sample at time t that yielded an
\* off-CPU group: the samples it appended are the group's one or two samples,
\* each at a time <= t, followed by the on-CPU sample at t.
GroupThenSample(i) ==
    LET t == SatRef(Val(hist[i].rec.e.timestamp))
        last == hist[i].n
    IN  /\ OutSamples[last].site = "on_cpu"
        /\ OutSamples[last].timestamp = t
        /\ Cardinality(EmittedBy(i)) \in {2, 3}
        /\ \A k \in EmittedBy(i) \ {last} :
            /\ OutSamples[k].site # "on_cpu"
            /\ OutSamples[k].thread = OutSamples[last].thread
            /\ OutSamples[k].timestamp <= t

YieldsGroup(i) ==
    /\ IsMainSample(hist[i].rec)
    /\ \E k \in EmittedBy(i) : OutSamples[k].site # "on_cpu"

\* C3, as stated: whenever a main-event sample at t yields an off-CPU group,
\* the group's samples have timestamps <= t and precede the on-CPU sample.
C3_GroupBeforeSampleAlways ==
    Built => \A i \in 1..Len(hist) : YieldsGroup(i) => GroupThenSample(i)

\* the last switch-out of the sample's tid before record i is not later than it
NotBeforeSwitchOut(i) ==
    \A j \in 1..(i - 1) :
        (/\ IsSwitchOut(hist[j].rec)
         /\ TimedTid(hist[j].rec) = Val(hist[i].rec.e.tid)
         /\ \A m \in (j + 1)..(i - 1) :
               ~(IsSwitchOut(hist[m].rec) /\ TimedTid(hist[m].rec) = Val(hist[i].rec.e.tid)))
            => Val(hist[j].rec.timestamp) <= Val(hist[i].rec.e.timestamp)

\* C3, amended: the same, for a sample whose time t is not earlier than the
\* time at which its thread was switched out.
C3_GroupBeforeSample ==
    Built =>
        \A i \in 1..Len(hist) :
            (YieldsGroup(i) /\ NotBeforeSwitchOut(i)) => GroupThenSample(i)

C3_Witness ==
    /\ Built
    /\ \E i \in 1..Len(hist) :
        /\ YieldsGroup(i)
        /\ NotBeforeSwitchOut(i)
        /\ Cardinality(EmittedBy(i)) = 3
        /\ OutSamples[hist[i].n - 2].timestamp < OutSamples[hist[i].n].timestamp

----------------------------------------------------------------------------
\* C4: when the main event is not time-based, every off-CPU sample in the
\* output (begin or rest, from a sample or from a switch-in) has weight 0.
C4_UntimedOffCpuWeightZero ==
    (Built /\ interpretation.sampling_is_time_based = None) =>
        \A k \in 1..Len(OutSamples) :
            OutSamples[k].site # "on_cpu" => OutSamples[k].weight = 0

C4_Witness ==
    /\ Built
    /\ interpretation.sampling_is_time_based = None
    /\ \E k \in 1..Len(OutSamples) :
        /\ OutSamples[k].site = "off_rest"
        /\ OutSamples[k].cpu_delta = 0
        /\ OutSamples[k].weight = 0

----------------------------------------------------------------------------
\* C5: every process created while a record is handled has, as libraries,
\* every kernel module that was in the kernel modules list at that time.
HasLib(process, lib) == \E m \in 1..Len(process.libs) : process.libs[m] = lib

C5_KernelModulesShared ==
    Built =>
        \A i \in 1..Len(hist) :
            \A h \in (ProcessesBefore(i) + 1)..hist[i].np :
                \A k \in 1..KernelModulesBefore(i) :
                    HasLib(converter.profile.processes[h], converter.kernel_modules[k])

\* a process created anew for a pid that had one before, after a kernel mmap
C5_Witness ==
    /\ Built
    /\ \E i \in 1..Len(hist) :
        /\ KernelModulesBefore(i) >= 1
        /\ hist[i].np > ProcessesBefore(i)
        /\ \E g \in 1..ProcessesBefore(i) :
            converter.profile.processes[g].pid = converter.profile.processes[hist[i].np].pid
        /\ HasLib(converter.profile.processes[hist[i].np], converter.kernel_modules[1])

----------------------------------------------------------------------------
\* The record a step consumed, and the samples the step appended
StepRecord == hist'[Len(hist')].rec
ConsumesRecord == pc = "run" /\ Len(hist') = Len(hist) + 1
AppendedByStep == (Len(converter.profile.samples) + 1)..Len(converter'.profile.samples)

\* C7: when a step appends a sample, the sample's thread already is in the
\* output document and is the thread registered under the record's tid, and
\* the thread's owning process already is in the output document.
C7_Step ==
    ConsumesRecord =>
        \A k \in AppendedByStep :
            LET s == converter'.profile.samples[k]
                tid == TimedTid(StepRecord)
            IN  /\ s.thread \in 1..s.threads_then
                /\ IsSome(converter'.threads[tid])
                /\ Val(converter'.threads[tid]).profile_thread = s.thread
                /\ converter'.profile.threads[s.thread].tid = tid
                /\ converter'.profile.threads[s.thread].process \in 1..s.processes_then

C7_CreatedBeforeEmitted == [][C7_Step]_vars

\* a first sample of a tid: its thread and process were created for it
C7_Witness ==
    /\ Built
    /\ Len(hist) >= 2
    /\ LET i == Len(hist)
       IN  /\ IsMainSample(hist[i].rec)
           /\ hist[i].np > ProcessesBefore(i)
           /\ EmittedBy(i) # {}
           /\ \A k \in EmittedBy(i) :
               /\ OutSamples[k].thread = Len(converter.profile.threads)
               /\ OutSamples[k].threads_then = Len(converter.profile.threads)
               /\ OutSamples[k].thread > 1

----------------------------------------------------------------------------
\* The times a record writes, as max(0, ktime - reference) of the raw times
\* it carries.  h is the thread the record's tid names once it is handled,
\* or named before, for the records that unregister it.
ThreadAfter(tid) == Val(converter'.threads[tid]).profile_thread
ThreadEnded(tid) ==
    IF IsSome(converter.threads[tid])
    THEN Val(converter.threads[tid]).profile_thread
    ELSE Len(converter'.profile.threads)
ProcessEnded(pid) ==
    IF IsSome(converter.processes[pid])
    THEN Val(converter.processes[pid]).profile_process
    ELSE Len(converter'.profile.processes)
ProcessOfThread(h) == converter'.profile.threads[h].process

SampleTimesWritten(r) ==
    \A k \in AppendedByStep :
        LET s == converter'.profile.samples[k]
        IN  s.timestamp =
                IF s.site = "off_begin"
                THEN SatRef(Val(converter.threads[TimedTid(r)]).context_switch_data.since)
                ELSE SatRef(Val(r.timestamp))

ForkTimesWritten(r) ==
    LET h == ThreadAfter(r.e.tid)
    IN  /\ converter'.profile.threads[h].start_time = SatRef(r.e.timestamp)
        /\ r.e.pid = r.e.tid =>
               converter'.profile.processes[ProcessOfThread(h)].start_time
                   = SatRef(r.e.timestamp)

ExitTimesWritten(r) ==
    LET h == ThreadEnded(r.e.tid)
    IN  /\ converter'.profile.threads[h].end_time = Some(SatRef(r.e.timestamp))
        /\ r.e.pid = r.e.tid =>
               converter'.profile.processes[ProcessEnded(r.e.pid)].end_time
                   = Some(SatRef(r.e.timestamp))

ExecTimesWritten(r) ==
    LET ended == IF IsSome(r.timestamp) /\ Val(r.timestamp) # 0
                 THEN Val(r.timestamp) ELSE converter.current_sample_time
        h == ThreadAfter(r.e.tid)
    IN  /\ IsSome(converter.threads[r.e.tid]) =>
               converter'.profile.threads[Val(converter.threads[r.e.tid]).profile_thread].end_time
                   = Some(SatRef(ended))
        /\ converter'.profile.threads[h].start_time = SatRef(converter.current_sample_time)
        /\ r.e.pid = r.e.tid =>
               converter'.profile.processes[ProcessOfThread(h)].start_time
                   = SatRef(converter.current_sample_time)

\* C8: the reference is the recording's first sample time (0 when it has
\* none) and never changes afterwards, and every time a record writes into
\* the output is max(0, ktime - reference).
C8_Step ==
    /\ (pc = "start" /\ pc' = "run") =>
           converter'.timestamp_converter.reference_ns
               = (IF IsSome(recording.sample_time_range)
                  THEN Val(recording.sample_time_range) ELSE 0)
    /\ pc = "run" => converter'.timestamp_converter = converter.timestamp_converter
    /\ (ConsumesRecord /\ pc' = "run") =>
           /\ SampleTimesWritten(StepRecord)
           /\ StepRecord.kind = "Fork" => ForkTimesWritten(StepRecord)
           /\ StepRecord.kind = "Exit" => ExitTimesWritten(StepRecord)
           /\ (StepRecord.kind = "Comm" /\ StepRecord.e.is_execve)
                  => ExecTimesWritten(StepRecord)

C8_TimestampNormalization == [][C8_Step]_vars

\* a time before the reference was written as 0, and one after it as the
\* difference
C8_Witness ==
    /\ Built
    /\ Ref > 0
    /\ \E i, j \in 1..Len(hist) :
        /\ IsMainSample(hist[i].rec) /\ IsMainSample(hist[j].rec)
        /\ Val(hist[i].rec.timestamp) < Ref
        /\ Val(hist[j].rec.timestamp) > Ref
        /\ hist[i].n = SamplesBefore(i) + 1
        /\ OutSamples[hist[i].n].timestamp = 0
        /\ hist[j].n > SamplesBefore(j)
        /\ OutSamples[hist[j].n].timestamp = Val(hist[j].rec.timestamp) - Ref

----------------------------------------------------------------------------
\* C6: the frames of an on-CPU sample that has at least one are the
\* reconstructed leaf-to-root stack, truncation markers removed, in exactly
\* the reverse order: the first emitted frame is the stack's last real entry
\* (the root caller) and the last emitted frame is its first, an instruction
\* pointer.
RealEntries(stack) == { i \in 1..Len(stack) : stack[i].kind # "Trunc" }
\* the position in the stack of its k-th real entry
RealAt(stack, k) ==
    CHOOSE i \in RealEntries(stack) :
        Cardinality({ j \in RealEntries(stack) : j <= i }) = k

C6_FrameOrdering ==
    (px.phase = "frames" /\ Len(px.frames) >= 1) =>
        LET n == Cardinality(RealEntries(px.stack))
        IN  /\ Len(px.frames) = n
            /\ \A k \in 1..n :
                LET f == px.stack[RealAt(px.stack, n + 1 - k)]
                IN  /\ px.frames[k].addr = f.addr
                    /\ px.frames[k].kind = f.kind
                    /\ px.frames[k].category = f.mode
            /\ px.frames[n].kind = "IP"

\* kernel and user frames from the callchain, an unwound part cut short
C6_Witness ==
    /\ px.phase = "frames"
    /\ IsSome(px.e.callchain)
    /\ Len(Val(px.e.callchain)) >= 2
    /\ Len(px.frames) >= 3
    /\ Len(px.stack) > Len(px.frames)
    /\ px.frames[1].category = "User"
    /\ px.frames[Len(px.frames)].category = "Kernel"
    /\ px.frames[Len(px.frames)].addr = Val(px.e.callchain)[2]

----------------------------------------------------------------------------
\* The text-kind sections, by position, whose file range lies in the mapping
FullyMapped(file, m) ==
    { i \in 1..Len(file.sections) :
        /\ file.sections[i].kind = "Text"
        /\ IsSome(file.sections[i].file_range)
        /\ m.file_offset <= Val(file.sections[i].file_range)[1]
        /\ Val(file.sections[i].file_range)[1] + Val(file.sections[i].file_range)[2]
               <= m.file_offset + m.size }
First(S) == CHOOSE i \in S : \A j \in S : i <= j

\* C9: when a text-kind section lies entirely within the mapping's file
\* range, the bias is that of the first such section: AVMA + (section file
\* offset - mapping file offset) - section SVMA, in u64 arithmetic, so that
\* bias + section SVMA is the section's AVMA.
C9_BiasViaTextSection ==
    (px.phase = "bias" /\ FullyMapped(px.file, px.mapping) # {}) =>
        LET s == px.file.sections[First(FullyMapped(px.file, px.mapping))]
            section_avma == px.mapping.avma + (Val(s.file_range)[1] - px.mapping.file_offset)
        IN  /\ IsSome(px.bias)
            /\ Val(px.bias) \in 0..(2 ^ AddrBits - 1)
            /\ (Val(px.bias) - (section_avma - s.address)) % (2 ^ AddrBits) = 0
            /\ (Val(px.bias) + s.address) % (2 ^ AddrBits) = section_avma % (2 ^ AddrBits)

\* the chosen section is not the first section and starts inside the mapping
C9_Witness ==
    /\ px.phase = "bias"
    /\ FullyMapped(px.file, px.mapping) # {}
    /\ First(FullyMapped(px.file, px.mapping)) = 2
    /\ Val(px.file.sections[2].file_range)[1] > px.mapping.file_offset
    /\ px.bias = Some(64 + 16 - 200 + 2 ^ AddrBits)

----------------------------------------------------------------------------
\* The fallback, with the extent against which a segment is tested for
\* holding the mapping's file offset left open: `extent` is "file" or "memory"
SegmentExtent(g, extent) == IF extent = "file" THEN Val(g.file_range)[2] ELSE g.size

Qualifying(file, m, extent) ==
    { i \in 1..Len(file.segments) :
        LET g == file.segments[i]
        IN  /\ g.kind = "Load"
            /\ g.flags % 2 = 1
            /\ IsSome(g.file_range)
            /\ Val(g.file_range)[1] <= m.file_offset
            /\ \/ Val(g.file_range)[1] = m.file_offset
               \/ m.file_offset < Val(g.file_range)[1] + SegmentExtent(g, extent) }

FallbackBias(file, m, extent) ==
    IF ~file.is_elf \/ Qualifying(file, m, extent) = {} THEN None
    ELSE LET g == file.segments[First(Qualifying(file, m, extent))]
         IN  Some((m.avma - (g.address + (m.file_offset - Val(g.file_range)[1])))
                      % (2 ^ AddrBits))

\* C10, as stated: with no qualifying text section, the bias comes from the
\* first executable loadable segment whose file offset is the mapping's or
\* whose file range (file offset .. file offset + file size) holds it.
C10_SegmentFallbackByFileSize ==
    (px.phase = "bias" /\ FullyMapped(px.file, px.mapping) = {}) =>
        px.bias = FallbackBias(px.file, px.mapping, "file")

\* C10, amended: the same, the range being file offset .. file offset +
\* memory size of the segment.
C10_SegmentFallback ==
    (px.phase = "bias" /\ FullyMapped(px.file, px.mapping) = {}) =>
        px.bias = FallbackBias(px.file, px.mapping, "memory")

\* a mapping that starts past the segment's file size, within its memory size
C10_Witness ==
    /\ px.phase = "bias"
    /\ FullyMapped(px.file, px.mapping) = {}
    /\ px.file.is_elf
    /\ Qualifying(px.file, px.mapping, "file") = {}
    /\ Qualifying(px.file, px.mapping, "memory") # {}
    /\ px.bias = Some(64 - (40 + (32 - 16)))

----------------------------------------------------------------------------
\* A record whose parse failed: record.parse(), or common_data() of a
\* context switch
FailsToParse(r) ==
    \/ r.kind = "ParseError"
    \/ r.kind = "ContextSwitch" /\ ~r.common_ok

\* A record at which a handler's `expect` fails
IsFatal(r) ==
    \/ /\ r.kind = "Sample"
       /\ \/ r.attr_index = interpretation.main_event_attr_index /\ sample_panics(r.e)
          \/ /\ r.attr_index # interpretation.main_event_attr_index
             /\ interpretation.sched_switch_attr_index = Some(r.attr_index)
             /\ sched_switch_panics(r.e)
    \/ r.kind = "ContextSwitch" /\ r.common_ok /\ context_switch_panics(r.common)

SkippedUnchanged ==
    (ConsumesRecord /\ FailsToParse(StepRecord)) =>
        /\ converter' = converter
        /\ pc' = "run"

\* C12, as stated: a record that fails to parse leaves the converter as it
\* was and the loop running, and the loop stops only at input exhaustion.
C12_StopsOnlyAtExhaustion ==
    [][/\ SkippedUnchanged
       /\ (pc = "run" /\ pc' # "run") => StepRecord.kind = "EndOfInput"]_vars

\* C12, amended: a record that fails to parse leaves the converter as it was
\* and the loop running; the loop stops only at input exhaustion, at an
\* error of the record reader, or at a record that is fatal to its handler.
C12_RecordFailuresSkipped ==
    [][/\ SkippedUnchanged
       /\ (pc = "run" /\ pc' # "run") =>
              \/ pc' = "done" /\ StepRecord.kind \in {"EndOfInput", "ReadError"}
              \/ pc' = "aborted" /\ IsFatal(StepRecord)]_vars

\* a parse failure between two samples that were both emitted
C12_Witness ==
    /\ pc = "run"
    /\ Len(hist) = 3
    /\ IsMainSample(hist[1].rec)
    /\ hist[2].rec.kind = "ParseError"
    /\ IsMainSample(hist[3].rec)
    /\ hist[1].n = 1 /\ hist[2].n = 1 /\ hist[3].n = 2

----------------------------------------------------------------------------
\* C11: a main-event Sample record without pid, tid or timestamp aborts the
\* conversion, and leaves the converter as it was before the record: no
\* process or thread created, the current sample time kept, nothing appended.
C11_Step ==
    (/\ ConsumesRecord
     /\ StepRecord.kind = "Sample"
     /\ StepRecord.attr_index = interpretation.main_event_attr_index
     /\ \/ StepRecord.e.pid = None
        \/ StepRecord.e.tid = None
        \/ StepRecord.e.timestamp = None) =>
        /\ pc' = "aborted"
        /\ converter'.processes = converter.processes
        /\ converter'.threads = converter.threads
        /\ converter'.current_sample_time = converter.current_sample_time
        /\ converter'.profile = converter.profile
        /\ converter' = converter

C11_MissingFieldsFatal == [][C11_Step]_vars

\* the conversion aborted at a sample without tid, after a sample that was
\* emitted
C11_Witness ==
    /\ pc = "aborted"
    /\ Len(hist) = 2
    /\ IsMainSample(hist[1].rec)
    /\ hist[1].n >= 1
    /\ hist[2].rec.kind = "Sample"
    /\ hist[2].rec.attr_index = 0
    /\ hist[2].rec.e.tid = None
    /\ hist[2].n = hist[1].n
    /\ hist[2].np = hist[1].np
    /\ converter.current_sample_time = Val(hist[1].rec.timestamp)

----------------------------------------------------------------------------
\* A mapping record that reaches the module loader, and the build ID the
\* loader is told to expect for it
ReachesLoader(r) ==
    \/ /\ r.kind = "Mmap"
       /\ r.e.is_executable /\ IsSome(r.e.dso_key) /\ r.e.pid # -1
    \/ /\ r.kind = "Mmap2"
       /\ r.e.protection \in {4, 5, 6, 7}
       /\ r.e.file_id[1] = "BuildId" \/ IsSome(r.e.dso_key)

ExpectedBuildId(r) ==
    IF r.kind = "Mmap2" /\ r.e.file_id[1] = "BuildId" THEN Some(r.e.file_id[2])
    ELSE IF IsSome(converter.build_ids[Val(r.e.dso_key)])
    THEN Some(Val(converter.build_ids[Val(r.e.dso_key)]).build_id)
    ELSE None

Parsed(r) == IsSome(r.e.file) /\ Val(r.e.file).mmap_ok /\ Val(r.e.file).parse_ok

BuildIdMismatch(r) ==
    /\ Parsed(r) /\ IsSome(ExpectedBuildId(r))
    /\ IsSome(Val(r.e.file).build_id)
    /\ Val(r.e.file).build_id # ExpectedBuildId(r)
BuildIdMissing(r) ==
    /\ Parsed(r) /\ IsSome(ExpectedBuildId(r))
    /\ Val(r.e.file).build_id = None
BiasUndetermined(r) ==
    /\ Parsed(r)
    /\ ExpectedBuildId(r) = None \/ Val(r.e.file).build_id = ExpectedBuildId(r)
    /\ compute_image_bias(Val(r.e.file), r.e.page_offset, r.e.address, r.e.length) = None

\* the modules of pid's unwinder and the libraries of its process before the
\* step; a process the step creates starts with the kernel modules only
UnwinderBefore(pid) ==
    IF IsSome(converter.processes[pid]) THEN Val(converter.processes[pid]).unwinder
    ELSE <<>>
LibsBefore(pid) ==
    IF IsSome(converter.processes[pid])
    THEN converter.profile.processes[Val(converter.processes[pid]).profile_process].libs
    ELSE converter.kernel_modules

\* C13: when the loader fails with BuildIdMismatch, BuildIdMissing or
\* BiasUndetermined, the process's unwinder holds the modules it held and the
\* process the libraries it had, and the record loop goes on.
C13_Step ==
    (/\ ConsumesRecord
     /\ ReachesLoader(StepRecord)
     /\ \/ BuildIdMismatch(StepRecord)
        \/ BuildIdMissing(StepRecord)
        \/ BiasUndetermined(StepRecord)) =>
        LET pid == StepRecord.e.pid
            process == Val(converter'.processes[pid])
        IN  /\ pc' = "run"
            /\ process.unwinder = UnwinderBefore(pid)
            /\ converter'.profile.processes[process.profile_process].libs = LibsBefore(pid)
            /\ converter'.profile.samples = converter.profile.samples

C13_FailedLoadsHaveNoEffect == [][C13_Step]_vars

\* a module was loaded for a process, then a load for the same process failed
\* on the build ID, and a third record was handled
C13_Witness ==
    /\ pc = "run"
    /\ Len(hist) = 3
    /\ hist[1].rec.kind = "Mmap2" /\ hist[2].rec.kind = "Mmap2"
    /\ hist[1].rec.e.file = Some(ObjText(Some("bid_f"), Some("dbg")))
    /\ hist[2].rec.e.file = Some(ObjText(Some("bid_x"), Some("dbg")))
    /\ Len(Val(converter.processes[1]).unwinder) = 1
    /\ Len(converter.profile.processes[1].libs) = 1
    /\ IsMainSample(hist[3].rec)
    /\ hist[3].n = 1

----------------------------------------------------------------------------
\* The path the loader is given: the build ID table's, for an Mmap record of
\* a DSO the table knows
LoaderPath(r) ==
    IF r.kind = "Mmap" /\ IsSome(converter.build_ids[Val(r.e.dso_key)])
    THEN Val(converter.build_ids[Val(r.e.dso_key)]).path
    ELSE r.e.path

\* the process of pid has, after the step, one library more than before, the
\* minimal descriptor of the record's mapping
MinimalDescriptorAttached(r) ==
    LET process == Val(converter'.processes[r.e.pid])
        libs == converter'.profile.processes[process.profile_process].libs
        lib == libs[Len(libs)]
    IN  /\ Len(libs) = Len(LibsBefore(r.e.pid)) + 1
        /\ SubSeq(libs, 1, Len(libs) - 1) = LibsBefore(r.e.pid)
        /\ (lib.base_avma - (r.e.address - r.e.page_offset)) % (2 ^ AddrBits) = 0
        /\ lib.avma_range = <<r.e.address, r.e.address + r.e.length>>
        /\ lib.debug_id = IF IsSome(ExpectedBuildId(r))
                          THEN DebugId_from_identifier(Val(ExpectedBuildId(r)))
                          ELSE DebugId_default
        /\ lib.path = LoaderPath(r)

NothingAttached(r) ==
    LET process == Val(converter'.processes[r.e.pid])
    IN  converter'.profile.processes[process.profile_process].libs = LibsBefore(r.e.pid)

UnwinderKept(r) ==
    Val(converter'.processes[r.e.pid]).unwinder = UnwinderBefore(r.e.pid)

Unopened == ConsumesRecord /\ ReachesLoader(StepRecord) /\ StepRecord.e.file = None

\* C14, as stated: a file that cannot be opened registers nothing with the
\* unwinder; it gets the minimal descriptor when its path is no pseudo-path,
\* and no descriptor when it is one.
C14_MinimalUnlessPseudo ==
    [][Unopened =>
          /\ UnwinderKept(StepRecord)
          /\ IF LoaderPath(StepRecord) \in PseudoPaths
             THEN NothingAttached(StepRecord)
             ELSE MinimalDescriptorAttached(StepRecord)]_vars

\* C14, amended: a file that cannot be opened registers nothing with the
\* unwinder and gets the minimal descriptor, whether or not its path is a
\* pseudo-path.
C14_MinimalDescriptor ==
    [][Unopened =>
          /\ UnwinderKept(StepRecord)
          /\ MinimalDescriptorAttached(StepRecord)]_vars

\* descriptors for an unopened file with a build ID, for one without, and for
\* an unopened pseudo-path
C14_Witness ==
    /\ pc = "run"
    /\ Len(hist) = 3
    /\ hist[1].rec.kind = "Mmap2" /\ hist[1].rec.e.file = None
    /\ hist[1].rec.e.path = "/lib/libfoo.so"
    /\ hist[2].rec.kind = "Mmap" /\ hist[2].rec.e.file = None /\ hist[2].rec.e.pid = 1
    /\ hist[3].rec.kind = "Mmap2" /\ hist[3].rec.e.path = "[vdso]"
    /\ Val(converter.processes[1]).unwinder = <<>>
    /\ Len(converter.profile.processes[1].libs) = 2
    /\ converter.profile.processes[1].libs[1].debug_id = DebugId_from_identifier("bid_f")
    /\ converter.profile.processes[1].libs[2].debug_id = DebugId_default
    /\ converter.profile.processes[1].libs[1].base_avma = 48
    /\ Len(converter.profile.processes[2].libs) = 1

----------------------------------------------------------------------------
\* attrs[0] of the recording: its sampling policy and event type
MainPolicy == recording.attrs[1].sampling_policy
MainType == recording.attrs[1].type

\* q is the integer quotient of 10^9 by f
IsNanosPerSample(q, f) == q * f <= 1000000000 /\ 1000000000 < (q + 1) * f

\* what the construction must have made of attrs[0]
Classified ==
    CASE MainPolicy[1] = "NoSampling" -> pc = "failed"
      [] MainPolicy[1] = "Frequency" ->
            /\ pc # "failed"
            /\ IsSome(interpretation.sampling_is_time_based)
            /\ IsNanosPerSample(Val(interpretation.sampling_is_time_based), MainPolicy[2])
      [] MainPolicy[1] = "Period" ->
            /\ pc # "failed"
            /\ interpretation.sampling_is_time_based =
                  IF MainType \in {"SoftwareCpuClock", "SoftwareTaskClock"}
                  THEN Some(MainPolicy[2]) ELSE None

\* C15: NoSampling is fatal; Frequency(f) gives 10^9 / f nanoseconds per
\* sample; Period(p) of a CPU-clock or task-clock software event gives p
\* nanoseconds and any other Period is not time-based; the classification
\* made at construction never changes afterwards.
C15_PolicyClassification ==
    [][/\ pc = "start" => Classified'
       /\ pc # "start" => interpretation' = interpretation]_vars

\* the same, for the policies other than Frequency(0)
C15_PolicyClassificationNonZero ==
    [][/\ (pc = "start" /\ MainPolicy # <<"Frequency", 0>>) => Classified'
       /\ pc # "start" => interpretation' = interpretation]_vars

\* a frequency that does not divide 10^9, after three records
C15_Witness ==
    /\ pc = "run"
    /\ Len(hist) = 3
    /\ MainPolicy = <<"Frequency", 3>>
    /\ interpretation.sampling_is_time_based = Some(333333333)

\* Frequency(0): the construction has failed
C15_FrequencyZero ==
    /\ pc = "failed"
    /\ MainPolicy = <<"Frequency", 0>>

----------------------------------------------------------------------------
MainEnded == pc = "exited" /\ px.phase = "ended"
Converting == px.phase \in {"convert", "ended"} /\ IsSome(px.convert)
KnownArch == px.arch[1] = "Ok" /\ IsSome(px.arch[2])
Readable == px.args >= 1 /\ px.file

\* C16: the process exits with code 1 when there is no path argument and when
\* the recording's architecture is unknown; an architecture other than
\* x86_64 and aarch64 prints a diagnostic and is converted with the x86-64
\* register decoding and unwinder.
C16_ArchitectureHandling ==
    (pc # "main" /\ px.phase \in {"convert", "ended"}) =>
        /\ px.args < 1 => (MainEnded /\ px.ended = Exit(1) /\ px.convert = None)
        /\ (Readable /\ px.arch = <<"Ok", None>>) =>
              (MainEnded /\ px.ended = Exit(1) /\ px.convert = None)
        /\ (Readable /\ KnownArch /\ Val(px.arch[2]) \notin {"x86_64", "aarch64"}) =>
              /\ Len(px.eprintln) >= 1 /\ px.eprintln[1] = "Unsupported arch"
              /\ IsSome(px.convert)
              /\ Val(px.convert).regs = "ConvertRegsX86_64"
              /\ Val(px.convert).unwinder = "UnwinderX86_64"
              /\ px.ended # Exit(1)
              /\ pc = "exited" => px.ended \in {Exit(0), Panic}

\* a riscv64 recording has been converted and saved
C16_Witness ==
    /\ MainEnded
    /\ px.arch = <<"Ok", Some("riscv64")>>
    /\ px.ended = Exit(0)
    /\ Val(px.convert).unwinder = "UnwinderX86_64"
    /\ Len(hist) = 3
    /\ hist[1].rec.kind = "Sample"
    /\ hist[3].rec.kind = "EndOfInput"
    /\ Len(converter.profile.samples) >= 1

\* exits with code 1: no argument, and no architecture in the recording
C16_WitnessExit ==
    /\ MainEnded
    /\ px.ended = Exit(1)
    /\ px.args = 1
    /\ px.arch = <<"Ok", None>>

----------------------------------------------------------------------------
\* The callchain of the sample in hand, and the positions of its words that
\* are no context markers
Chain == IF IsSome(px.e.callchain) THEN Val(px.e.callchain) ELSE <<>>
NonMarkers == { i \in 1..Len(Chain) : ~UGe(Chain[i], PERF_CONTEXT_MAX) }
\* the k-th smallest member of S
Nth(S, k) == CHOOSE i \in S : Cardinality({ j \in S : j <= i }) = k

KernelMarkers == {PERF_CONTEXT_KERNEL, PERF_CONTEXT_GUEST_KERNEL}
UserMarkers == {PERF_CONTEXT_USER, PERF_CONTEXT_GUEST, PERF_CONTEXT_GUEST_USER}
RecordedMode == IF px.e.cpu_mode = "Kernel" THEN "Kernel" ELSE "User"
\* the mode in force at position i: that of the last mode marker before i
ModeInForce(i) ==
    LET before == { j \in 1..(i - 1) : Chain[j] \in KernelMarkers \cup UserMarkers }
    IN  IF before = {} THEN RecordedMode
        ELSE LET last == CHOOSE j \in before : \A h \in before : h <= j
             IN  IF Chain[last] \in KernelMarkers THEN "Kernel" ELSE "User"

\* how many frames the unwinder yielded, and whether it failed
Unwinding == px.e.user_regs /\ px.e.user_stack
Unwound == IF Unwinding THEN Len(px.e.unwind.frames) ELSE 0
UnwindFailed == Unwinding /\ px.e.unwind.err
Markers(stack) == { i \in 1..Len(stack) : stack[i] = TruncatedStackMarker }

Reconstructed == px.phase \in {"stack", "frames", "off_cpu_stack"}

\* C17: the words of a callchain that are no context markers are the frames
\* taken from it, in order, each tagged with the mode in force where it
\* stands: the recorded mode, or that of the last USER, KERNEL, GUEST,
\* GUEST_USER or GUEST_KERNEL marker before it; no marker is a frame.  With
\* recorded mode User, [0x1000, KERNEL, 0x7FFF_0001, USER, 0x2000] is emitted
\* as (0x2000,User), (0x7FFF_0001,Kernel), (0x1000,User).
C17_ModeTagging ==
    /\ (Reconstructed /\ IsSome(px.e.callchain)) =>
          LET n == Cardinality(NonMarkers)
          IN  /\ Len(px.stack) >= n
              /\ \A k \in 1..n :
                    /\ px.stack[k].addr = Chain[Nth(NonMarkers, k)]
                    /\ px.stack[k].mode = ModeInForce(Nth(NonMarkers, k))
              /\ (~Unwinding /\ n >= 1) => Len(px.stack) = n
              /\ \A k \in 1..Len(px.stack) : ~UGe(px.stack[k].addr, PERF_CONTEXT_MAX)
    /\ (/\ px.phase = "frames"
        /\ px.e.callchain = Some(ExampleChain)
        /\ px.e.cpu_mode = "User"
        /\ ~Unwinding) =>
          /\ Len(px.frames) = 3
          /\ <<px.frames[1].addr, px.frames[1].category>> = <<8192, "User">>
          /\ <<px.frames[2].addr, px.frames[2].category>> = <<2147418113, "Kernel">>
          /\ <<px.frames[3].addr, px.frames[3].category>> = <<4096, "User">>

\* a frame after a guest marker that changes the mode, past a marker that
\* does not
C17_Witness ==
    /\ px.phase = "stack"
    /\ px.e.callchain = Some(<<PERF_CONTEXT_GUEST_KERNEL, PERF_CONTEXT_MAX, 16>>)
    /\ px.e.cpu_mode = "User"
    /\ ~Unwinding
    /\ px.stack = <<InstructionPointer(16, "Kernel")>>

\* the example of the claim, emitted
C17_WitnessExample ==
    /\ px.phase = "frames"
    /\ px.e.callchain = Some(ExampleChain)
    /\ px.e.cpu_mode = "User"
    /\ Len(px.frames) = 3

\* C18: of the frames taken from a callchain, the first (the first word that
\* is no context marker) is an InstructionPointer and every later one is a
\* ReturnAddress, whatever markers precede or separate them.
C18_FirstFrameKind ==
    (Reconstructed /\ IsSome(px.e.callchain)) =>
        \A k \in 1..Cardinality(NonMarkers) :
            /\ k <= Len(px.stack)
            /\ px.stack[k].kind = IF k = 1 THEN "IP" ELSE "RA"

\* markers before the first frame and between it and the second
C18_Witness ==
    /\ px.phase = "stack"
    /\ px.e.callchain = Some(<<PERF_CONTEXT_KERNEL, 16, PERF_CONTEXT_GUEST, 32>>)
    /\ px.stack[1].kind = "IP"
    /\ px.stack[2].kind = "RA"

\* C19: a sample is unwound only if it has both registers and a user stack;
\* the frames the unwinder yields follow those of the callchain, all of mode
\* User; if the unwinder fails, one TruncatedStackMarker follows the
\* frames gathered before the failure and ends the stack; without unwinding,
\* or without a failure, the stack has no marker; no marker is among the
\* frames of an emitted sample or in a stack kept for off-CPU samples.
C19_UnwindTruncation ==
    Reconstructed =>
        LET n == Cardinality(NonMarkers)
        IN  /\ Unwinding =>
                  /\ Len(px.stack) >= n + Unwound
                  /\ \A i \in 1..Unwound :
                        /\ px.stack[n + i].mode = "User"
                        /\ px.stack[n + i].kind = px.e.unwind.frames[i].kind
                        /\ px.stack[n + i].addr = px.e.unwind.frames[i].addr
            /\ ~Unwinding =>
                  Len(px.stack) = IF n = 0 /\ IsSome(px.e.ip) THEN 1 ELSE n
            /\ UnwindFailed =>
                  /\ Len(px.stack) = n + Unwound + 1
                  /\ Markers(px.stack) = {Len(px.stack)}
            /\ ~UnwindFailed => Markers(px.stack) = {}
            /\ px.phase \in {"frames", "off_cpu_stack"} =>
                  \A k \in 1..Len(px.frames) : px.frames[k].kind \in {"IP", "RA"}

\* a failure after two unwound frames: the stack ends in the marker, the
\* emitted frames are those before it
C19_Witness ==
    /\ px.phase = "frames"
    /\ UnwindFailed
    /\ Unwound = 2
    /\ Cardinality(NonMarkers) = 1
    /\ Len(px.stack) = 4
    /\ px.stack[4] = TruncatedStackMarker
    /\ Len(px.frames) = 3

\* the same for a stack kept at a sched_switch
C19_WitnessOffCpu ==
    /\ px.phase = "off_cpu_stack"
    /\ UnwindFailed
    /\ Len(px.stack) = Len(px.frames) + 1

\* C20: if the callchain and the unwinding leave the stack empty and the
\* sample has an ip, the stack is the one InstructionPointer frame of that
\* ip, tagged with the recorded mode; if they leave it non-empty, nothing is
\* appended for the ip.
C20_IpFallback ==
    Reconstructed =>
        LET before == Cardinality(NonMarkers) + Unwound + (IF UnwindFailed THEN 1 ELSE 0)
        IN  IF before = 0
            THEN px.stack = IF IsSome(px.e.ip)
                            THEN <<InstructionPointer(Val(px.e.ip), RecordedMode)>>
                            ELSE <<>>
            ELSE Len(px.stack) = before

\* a callchain of context markers only, in kernel mode
C20_Witness ==
    /\ px.phase = "stack"
    /\ IsSome(px.e.callchain)
    /\ Len(Chain) = 2
    /\ NonMarkers = {}
    /\ px.e.cpu_mode = "Kernel"
    /\ Unwinding
    /\ px.e.unwind = NoFrames
    /\ px.stack = <<InstructionPointer(64, "Kernel")>>

\* a stack that is only the marker: the ip is not appended
C20_WitnessNotAppended ==
    /\ px.phase = "stack"
    /\ IsSome(px.e.ip)
    /\ px.stack = <<TruncatedStackMarker>>

----------------------------------------------------------------------------
\* The thread registered under tid before the step, and its context-switch
\* datum (that of a new thread when there is none)
ThreadBefore(tid) == converter.threads[tid]
DatumBefore(tid) ==
    IF IsSome(ThreadBefore(tid)) THEN Val(ThreadBefore(tid)).context_switch_data
    ELSE ThreadContextSwitchData_default
\* the step handles a main-event sample that is no duplicate
EmitsOnCpu ==
    /\ ConsumesRecord
    /\ IsMainSample(StepRecord)
    /\ ~(/\ IsSome(ThreadBefore(Val(StepRecord.e.tid)))
         /\ Val(ThreadBefore(Val(StepRecord.e.tid))).last_sample_timestamp
                = StepRecord.e.timestamp)
LastSample(c) == c.profile.samples[Len(c.profile.samples)]
\* what the meter holds for the on-CPU sample at t: the on-CPU time since the
\* last consumption, or nothing when an off-CPU group has just consumed it
MeteredFor(tid, t) ==
    IF DatumBefore(tid).state = "Off" THEN 0 ELSE MeterOn(DatumBefore(tid), t)

\* C21: the on-CPU sample of a main-event sample is appended last, with
\* weight 1; its CPU delta is the metered delta when the main event has the
\* context-switch flag, else the sample's period if it has one, else zero.
C21_CpuDelta ==
    [][EmitsOnCpu =>
          LET e == StepRecord.e
              s == LastSample(converter')
          IN  /\ AppendedByStep # {}
              /\ s.site = "on_cpu"
              /\ s.weight = 1
              /\ Cardinality({ k \in AppendedByStep :
                                  converter'.profile.samples[k].site = "on_cpu" }) = 1
              /\ s.cpu_delta =
                    IF converter.have_context_switches
                    THEN MeteredFor(Val(e.tid), Val(e.timestamp))
                    ELSE IF IsSome(e.period) THEN Val(e.period)
                    ELSE 0]_vars

\* with the flag, a sample that carries a period gets the metered
\* millisecond since the sample before it
C21_Witness ==
    /\ pc = "run"
    /\ Len(hist) = 2
    /\ converter.have_context_switches
    /\ IsMainSample(hist[2].rec)
    /\ IsSome(hist[2].rec.e.period)
    /\ hist[2].n = hist[1].n + 1
    /\ LastSample(converter).cpu_delta = Ms(1)

\* without the flag: the period, and zero for a sample that has none
C21_WitnessPeriod ==
    /\ pc = "run"
    /\ Len(hist) = 2
    /\ ~converter.have_context_switches
    /\ hist[2].n = 2
    /\ converter.profile.samples[1].cpu_delta = 7
    /\ converter.profile.samples[2].cpu_delta = 0
    /\ converter.profile.samples[2].site = "on_cpu"

----------------------------------------------------------------------------
\* The time a sample or context switch carries, and the group the off-CPU
\* handler produces for it from the thread's datum
TimeOf(r) == IF r.kind = "Sample" THEN Val(r.e.timestamp) ELSE Val(r.common.timestamp)
GroupFor(r) ==
    cs_handle_sample(converter.context_switch_handler, TimeOf(r),
        DatumBefore(TimedTid(r)))[1]
\* the step handles a record for which a group is produced
EmitsGroup ==
    /\ ConsumesRecord
    /\ \/ EmitsOnCpu
       \/ IsSwitch(StepRecord) /\ StepRecord.e.in
    /\ IsSome(GroupFor(StepRecord))
\* the samples of the group, as the step appended them: the first ones
GroupSamples ==
    LET first == Len(converter.profile.samples) + 1
        n == Cardinality({ k \in AppendedByStep :
                 converter'.profile.samples[k].site # "on_cpu" })
    IN  [i \in 1..n |-> converter'.profile.samples[first + i - 1]]
SavedStackBefore(tid) == Val(ThreadBefore(tid)).off_cpu_stack

BeginSampleAsClaimed(g, tid) ==
    /\ Len(GroupSamples) >= 1
    /\ GroupSamples[1].timestamp = SatRef(g.begin_timestamp)
    /\ GroupSamples[1].cpu_delta = DatumBefore(tid).cpu
    /\ GroupSamples[1].weight = converter.off_cpu_weight_per_sample
    /\ GroupSamples[1].frames = SavedStackBefore(tid)
    /\ Len(GroupSamples) = IF g.sample_count > 1 THEN 2 ELSE 1
EndSampleAsClaimed(g, tid, weight) ==
    g.sample_count > 1 =>
        /\ GroupSamples[2].timestamp = SatRef(g.end_timestamp)
        /\ GroupSamples[2].cpu_delta = 0
        /\ GroupSamples[2].weight = weight
        /\ GroupSamples[2].frames = SavedStackBefore(tid)

C22_WitnessOverflow ==
    /\ pc = "run"
    /\ converter.off_cpu_weight_per_sample = 1
    /\ converter.context_switch_handler.off_cpu_sampling_interval_ns = 1
    /\ Len(converter.profile.samples) = 2
    /\ converter.profile.samples[2].site = "off_rest"
    /\ converter.profile.samples[2].weight = 0

----------------------------------------------------------------------------
IsSwitchIn(r) == IsSwitch(r) /\ r.e.in
Last(k) == hist[Len(hist) - k].rec
Interval == converter.context_switch_handler.off_cpu_sampling_interval_ns
Weight(n) == IF n <= I32_MAX THEN n * converter.off_cpu_weight_per_sample ELSE 0

\* the step handles a switch-out
AfterNothing == ConsumesRecord /\ IsSwitchOut(StepRecord)
\* the step handles a switch-in that follows a switch-out of its thread
AfterOut ==
    /\ ConsumesRecord /\ Len(hist) >= 1
    /\ IsSwitchOut(Last(0)) /\ IsSwitchIn(StepRecord)
    /\ TimedTid(Last(0)) = TimedTid(StepRecord)
    /\ TimeOf(Last(0)) <= TimeOf(StepRecord)
\* the step handles a main-event sample that follows the two
AfterOutIn ==
    /\ ConsumesRecord /\ Len(hist) >= 2
    /\ IsSwitchOut(Last(1)) /\ IsSwitchIn(Last(0)) /\ IsMainSample(StepRecord)
    /\ TimedTid(Last(1)) = TimedTid(Last(0))
    /\ TimedTid(Last(0)) = TimedTid(StepRecord)
    /\ TimeOf(Last(1)) <= TimeOf(Last(0))
    /\ TimeOf(Last(0)) <= TimeOf(StepRecord)

\* C23: a switch-out at t0 appends nothing and leaves the thread off-CPU; a
\* switch-in at t1 that follows appends, in that step, the group (t0, t1,
\* floor((t1 - t0) / interval)); a main-event sample at t2 >= t1 that follows
\* appends no off-CPU sample, only its on-CPU sample (none if it is a
\* duplicate).  With interval 1 ms, Out at 10_000_000, In at 13_500_000 and
\* Sample at 13_500_000 the output is the begin sample, the end sample of
\* weight 2 and the on-CPU sample.
C23_OutInSample ==
    [][/\ AfterNothing =>
             /\ AppendedByStep = {}
             /\ Val(converter'.threads[TimedTid(StepRecord)]).context_switch_data.state
                    = "Off"
       /\ AfterOut =>
             LET t0 == TimeOf(Last(0))
                 t1 == TimeOf(StepRecord)
                 count == (t1 - t0) \div Interval
                 first == Len(converter.profile.samples) + 1
                 out == converter'.profile.samples
             IN  /\ Len(out) = first + (IF count > 1 THEN 1 ELSE 0)
                 /\ out[first].site = "off_begin"
                 /\ out[first].timestamp = SatRef(t0)
                 /\ count > 1 =>
                       /\ out[first + 1].site = "off_rest"
                       /\ out[first + 1].timestamp = SatRef(t1)
                       /\ out[first + 1].cpu_delta = 0
                       /\ out[first + 1].weight = Weight(count - 1)
       /\ AfterOutIn =>
             /\ \A k \in AppendedByStep : converter'.profile.samples[k].site = "on_cpu"
             /\ Cardinality(AppendedByStep) = IF EmitsOnCpu THEN 1 ELSE 0
             /\ (/\ Len(hist) = 2 /\ Interval = Ms(1) /\ Ref = 0
                 /\ TimeOf(Last(1)) = Ms(10) /\ TimeOf(Last(0)) = 13500000
                 /\ TimeOf(StepRecord) = 13500000) =>
                   LET out == converter'.profile.samples
                   IN  /\ Len(out) = 3
                       /\ <<out[1].site, out[1].timestamp>> = <<"off_begin", Ms(10)>>
                       /\ <<out[2].site, out[2].timestamp>> = <<"off_rest", 13500000>>
                       /\ out[2].cpu_delta = 0
                       /\ out[2].weight = 2 * converter.off_cpu_weight_per_sample
                       /\ <<out[3].site, out[3].timestamp>> = <<"on_cpu", 13500000>>]_vars

\* the example, time-based: three samples, the second of weight 2
C23_Witness ==
    /\ pc = "run"
    /\ Len(hist) = 3
    /\ IsSwitchOut(hist[1].rec) /\ IsSwitchIn(hist[2].rec) /\ IsMainSample(hist[3].rec)
    /\ TimeOf(hist[3].rec) = 13500000
    /\ Interval = Ms(1)
    /\ converter.off_cpu_weight_per_sample = 1
    /\ Len(converter.profile.samples) = 3
    /\ converter.profile.samples[2].weight = 2
    /\ converter.profile.samples[3].site = "on_cpu"

----------------------------------------------------------------------------
\* the off-CPU sampling interval and weight of a converter
OffCpuSettings(c) ==
    <<c.context_switch_handler.off_cpu_sampling_interval_ns, c.off_cpu_weight_per_sample>>
\* the main event is time-based: sampled by frequency, or by period on one of
\* the two software clocks
TimeBased ==
    \/ MainPolicy[1] = "Frequency"
    \/ MainPolicy[1] = "Period" /\ MainType \in {"SoftwareCpuClock", "SoftwareTaskClock"}

\* C24: the converter is built with the main event's period as off-CPU
\* sampling interval and weight 1 per off-CPU sample when the main event is
\* time-based, and with 1 ms (1_000_000 ns) and weight 0 when it is not;
\* neither changes while records are handled.
C24_OffCpuSettings ==
    [][/\ (pc = "start" /\ pc' = "run") =>
             IF TimeBased
             THEN /\ OffCpuSettings(converter')[2] = 1
                  /\ IF MainPolicy[1] = "Period"
                     THEN OffCpuSettings(converter')[1] = MainPolicy[2]
                     ELSE IsNanosPerSample(OffCpuSettings(converter')[1], MainPolicy[2])
             ELSE OffCpuSettings(converter') = <<1000000, 0>>
       /\ pc = "run" => OffCpuSettings(converter') = OffCpuSettings(converter)]_vars

\* a clock period of 2 ms, kept through three records that emit a group
C24_Witness ==
    /\ pc = "run"
    /\ Len(hist) = 3
    /\ MainPolicy = <<"Period", Ms(2)>>
    /\ MainType = "SoftwareTaskClock"
    /\ OffCpuSettings(converter) = <<Ms(2), 1>>
    /\ Len(converter.profile.samples) >= 2

\* a hardware event counted by period: 1 ms and weight 0
C24_WitnessDefault ==
    /\ pc = "run"
    /\ Len(hist) = 3
    /\ MainPolicy = <<"Period", 1000>>
    /\ MainType = "Hardware"
    /\ OffCpuSettings(converter) = <<1000000, 0>>

----------------------------------------------------------------------------
IsSchedSample(r) ==
    /\ r.kind = "Sample"
    /\ r.attr_index # interpretation.main_event_attr_index
    /\ interpretation.sched_switch_attr_index = Some(r.attr_index)
    /\ ~sched_switch_panics(r.e)
IsOtherSample(r) ==
    /\ r.kind = "Sample"
    /\ r.attr_index # interpretation.main_event_attr_index
    /\ interpretation.sched_switch_attr_index # Some(r.attr_index)

\* the user-mode frames of a sample's reconstructed stack, root first
UserFramesRootFirst(e) ==
    LET stack == get_sample_stack(e)
        user == { i \in 1..Len(stack) :
                    stack[i].kind \in {"IP", "RA"} /\ stack[i].mode = "User" }
        n == Cardinality(user)
    IN  [k \in 1..n |->
            LET f == stack[Nth(user, n + 1 - k)]
            IN  [kind |-> f.kind, addr |-> f.addr, category |-> "User"]]

C25_WitnessOther ==
    /\ pc = "run"
    /\ Len(hist) = 2
    /\ IsOtherSample(hist[2].rec)
    /\ hist[2].np = hist[1].np

----------------------------------------------------------------------------
IsComm(r) == r.kind = "Comm"
CommStep == ConsumesRecord /\ IsComm(StepRecord)
ProcessBefore(pid) == converter.processes[pid]
\* the time an exec ends the old thread at: the record's, or the last
\* sample's when the record has none or a zero one
ExecEndTime(r) ==
    SatRef(IF r.timestamp = None \/ r.timestamp = Some(0)
           THEN converter.current_sample_time ELSE Val(r.timestamp))
OutThread(c, tid) == c.profile.threads[Val(c.threads[tid]).profile_thread]
OutProcess(c, pid) == c.profile.processes[Val(c.processes[pid]).profile_process]
\* the thread registered under tid after the step is a new one
FreshThread(tid) ==
    /\ IsSome(converter'.threads[tid])
    /\ Val(converter'.threads[tid]).profile_thread = Len(converter.profile.threads) + 1
    /\ Len(converter'.profile.threads) = Len(converter.profile.threads) + 1
    /\ Val(converter'.threads[tid]).last_sample_timestamp = None
    /\ Val(converter'.threads[tid]).context_switch_data = ThreadContextSwitchData_default
    /\ Val(converter'.threads[tid]).off_cpu_stack = <<>>
FreshProcess(pid) ==
    /\ IsSome(converter'.processes[pid])
    /\ Val(converter'.processes[pid]).profile_process = Len(converter.profile.processes) + 1
    /\ Len(converter'.profile.processes) = Len(converter.profile.processes) + 1

\* C26: a Comm record with is_execve ends the thread registered under its
\* tid, and the process registered under its pid if pid = tid, at the record's
\* time (the last sample's if the record has none or zero), and registers a
\* new thread (and process) with no per-thread state; with or without
\* is_execve the thread, and the process if pid = tid, get the record's name.
C26_Exec ==
    [][CommStep =>
          LET r == StepRecord
              e == r.e
              is_main == e.pid = e.tid
          IN  /\ e.is_execve =>
                    /\ IsSome(ThreadBefore(e.tid)) =>
                          converter'.profile.threads[Val(ThreadBefore(e.tid)).profile_thread]
                              .end_time = Some(ExecEndTime(r))
                    /\ FreshThread(e.tid)
                    /\ (is_main /\ IsSome(ProcessBefore(e.pid))) =>
                          converter'.profile.processes[Val(ProcessBefore(e.pid)).profile_process]
                              .end_time = Some(ExecEndTime(r))
                    /\ is_main => FreshProcess(e.pid)
                    /\ (~is_main /\ IsSome(ProcessBefore(e.pid))) =>
                          /\ converter'.processes[e.pid] = ProcessBefore(e.pid)
                          /\ OutProcess(converter', e.pid).end_time
                                = OutProcess(converter, e.pid).end_time
              /\ (~e.is_execve /\ IsSome(ThreadBefore(e.tid))) =>
                    /\ Val(converter'.threads[e.tid]) =  Val(ThreadBefore(e.tid))
                    /\ OutThread(converter', e.tid).end_time = None
              /\ OutThread(converter', e.tid).name = Some(e.name)
              /\ OutThread(converter', e.tid).process
                    = Val(converter'.processes[e.pid]).profile_process
              /\ is_main => OutProcess(converter', e.pid).name = e.name]_vars

\* the exec of a sampled and switched-out main thread: it and its process
\* end at 5 ms, 4 ms after the reference, and their successors are named
C26_Witness ==
    /\ pc = "run"
    /\ Len(hist) = 3
    /\ IsMainSample(hist[1].rec)
    /\ IsSwitchOut(hist[2].rec)
    /\ IsComm(hist[3].rec) /\ hist[3].rec.e.is_execve /\ hist[3].rec.e.name = "ls"
    /\ Ref = Ms(1)
    /\ converter.profile.threads[1].end_time = Some(Ms(4))
    /\ converter.profile.processes[1].end_time = Some(Ms(4))
    /\ Val(converter.threads[1]).profile_thread = 2
    /\ Val(converter.threads[1]).context_switch_data = ThreadContextSwitchData_default
    /\ converter.profile.threads[2].name = Some("ls")
    /\ converter.profile.processes[2].name = "ls"

\* an exec without a timestamp ends the thread at the last sample's time
C26_WitnessNoTimestamp ==
    /\ pc = "run"
    /\ Len(hist) = 2
    /\ IsMainSample(hist[1].rec) /\ hist[1].rec.e.tid = Some(1)
    /\ IsComm(hist[2].rec) /\ hist[2].rec.timestamp = None
    /\ converter.profile.threads[1].end_time = Some(Ms(2) - Ref)

----------------------------------------------------------------------------
\* the positions of the Comm records read so far whose name is a real one
RealNames == { i \in 1..Len(hist) : IsComm(hist[i].rec) /\ hist[i].rec.e.name # "perf-exec" }
FirstRealName == hist[CHOOSE i \in RealNames : \A j \in RealNames : i <= j].rec.e.name
ProductOf(name) == <<name, " on ", recording.hostname, " (perf version ", recording.perf_version, ")">>

\* C27: the product string is the one built from the name of the first Comm
\* record that is not named perf-exec, whatever Comm records came before or
\* after it, and it is the initial product while there was no such record.
C27_ProductOnce ==
    pc \in {"run", "failed", "done"} =>
        /\ converter.have_product_name <=> RealNames # {}
        /\ IF RealNames = {}
           THEN converter.profile.product = "Converted perf profile"
           ELSE converter.profile.product = ProductOf(FirstRealName)

\* perf-exec, then ls, then cat: the product is the one of ls
C27_Witness ==
    /\ Len(hist) = 3
    /\ \A i \in 1..3 : IsComm(hist[i].rec)
    /\ hist[1].rec.e.name = "perf-exec"
    /\ hist[2].rec.e.name = "ls"
    /\ hist[3].rec.e.name = "cat"
    /\ converter.profile.product = <<"ls", " on ", "host", " (perf version ", "6.1", ")">>

\* only perf-exec so far: the product is still the initial one
C27_WitnessPerfExec ==
    /\ Len(hist) = 2
    /\ \A i \in 1..2 : IsComm(hist[i].rec) /\ hist[i].rec.e.name = "perf-exec"
    /\ ~converter.have_product_name

----------------------------------------------------------------------------
IsExit(r) == r.kind = "Exit"
ExitStep == ConsumesRecord /\ IsExit(StepRecord)
\* the output handles of the thread and the process an Exit step ends: the
\* registered ones, or the ones the step itself creates
EndedThread(tid) ==
    IF IsSome(ThreadBefore(tid)) THEN Val(ThreadBefore(tid)).profile_thread
    ELSE Len(converter.profile.threads) + 1
EndedProcess(pid) ==
    IF IsSome(ProcessBefore(pid)) THEN Val(ProcessBefore(pid)).profile_process
    ELSE Len(converter.profile.processes) + 1
\* the ids of the record last read, when it was an Exit
ExitedLast == Len(hist) > 0 /\ IsExit(hist[Len(hist)].rec)
LastExit == hist[Len(hist)].rec.e
\* the records that refer to a thread, and the thread and process they name
RefersToThread(r) ==
    \/ r.kind \in {"Fork", "Exit", "Comm"}
    \/ IsMainSample(r) \/ IsSchedSample(r) \/ IsSwitch(r)
TidOf(r) == IF r.kind \in {"Fork", "Exit", "Comm"} THEN r.e.tid ELSE TimedTid(r)
PidOf(r) ==
    CASE r.kind \in {"Fork", "Exit", "Comm"} -> r.e.pid
      [] r.kind = "Sample" -> Val(r.e.pid)
      [] OTHER -> Val(r.common.pid)

\* C28: an Exit record for (pid, tid) leaves no thread registered under tid
\* and ends that thread at the record's converted time; if pid = tid it leaves
\* no process registered under pid and ends the process at that time, and
\* otherwise the process is registered and not ended.  The next record that
\* names the tid, or the pid of an exited main thread, adds a thread, or a
\* process, to the output.
C28_Exit ==
    [][/\ ExitStep =>
            LET e == StepRecord.e
                end_time == Some(SatRef(e.timestamp))
            IN  /\ converter'.threads[e.tid] = None
                /\ converter'.profile.threads[EndedThread(e.tid)].end_time = end_time
                /\ e.pid = e.tid =>
                      /\ converter'.processes[e.pid] = None
                      /\ converter'.profile.processes[EndedProcess(e.pid)].end_time = end_time
                /\ e.pid # e.tid =>
                      /\ IsSome(converter'.processes[e.pid])
                      /\ Val(converter'.processes[e.pid]).profile_process = EndedProcess(e.pid)
                      /\ IsSome(ProcessBefore(e.pid)) =>
                            OutProcess(converter', e.pid).end_time
                                = OutProcess(converter, e.pid).end_time
       /\ (ConsumesRecord /\ pc' = "run" /\ ExitedLast /\ RefersToThread(StepRecord)) =>
            /\ TidOf(StepRecord) = LastExit.tid =>
                  Len(converter'.profile.threads) = Len(converter.profile.threads) + 1
            /\ (PidOf(StepRecord) = LastExit.pid /\ LastExit.pid = LastExit.tid) =>
                  Len(converter'.profile.processes) = Len(converter.profile.processes) + 1
      ]_vars

\* thread 2 of process 1 is sampled, exits, and is sampled again: the first
\* output thread ended at 3 ms, the process did not, the sample is on a new one
C28_Witness ==
    /\ pc = "run"
    /\ Len(hist) = 3
    /\ IsMainSample(hist[1].rec) /\ hist[1].rec.e.tid = Some(2)
    /\ IsExit(hist[2].rec) /\ hist[2].rec.e.tid = 2 /\ hist[2].rec.e.pid = 1
    /\ IsMainSample(hist[3].rec) /\ hist[3].rec.e.tid = Some(2)
    /\ converter.profile.threads[1].end_time = Some(Ms(3) - Ref)
    /\ converter.profile.processes[1].end_time = None
    /\ Len(converter.profile.processes) = 1
    /\ Val(converter.threads[2]).profile_thread = 2
    /\ converter.profile.threads[2].end_time = None

\* the main thread exits and is named again by a Comm record: a new thread
\* and a new process
C28_WitnessMain ==
    /\ pc = "run"
    /\ Len(hist) = 3
    /\ IsMainSample(hist[1].rec) /\ hist[1].rec.e.tid = Some(1)
    /\ IsExit(hist[2].rec) /\ hist[2].rec.e.tid = 1
    /\ IsComm(hist[3].rec) /\ hist[3].rec.e.tid = 1 /\ ~hist[3].rec.e.is_execve
    /\ converter.profile.processes[1].end_time = Some(Ms(3) - Ref)
    /\ Val(converter.processes[1]).profile_process = 2
    /\ Val(converter.threads[1]).profile_thread = 2

----------------------------------------------------------------------------
IsMapping(r) == r.kind \in {"Mmap", "Mmap2"}
MappingStep == ConsumesRecord /\ IsMapping(StepRecord)
IsExecutable(r) ==
    IF r.kind = "Mmap" THEN r.e.is_executable ELSE (r.e.protection \div PROT_EXEC) % 2 = 1
IsKernelMapping(r) == IsMapping(r) /\ IsExecutable(r) /\ r.e.pid = -1
KernelModulesKept == converter'.kernel_modules = converter.kernel_modules
ProcessesKept ==
    /\ converter'.processes = converter.processes
    /\ converter'.profile.processes = converter.profile.processes
\* the path the descriptor is built from: the build-ID table's, when the
\* table knows the record's DSO
KernelPath(e) ==
    IF IsSome(e.dso_key) /\ IsSome(recording.build_ids[Val(e.dso_key)])
    THEN Val(recording.build_ids[Val(e.dso_key)]).path ELSE e.path
\* the step appends one descriptor for the mapping to the kernel modules list
AppendsKernelModule(e) ==
    /\ Len(converter'.kernel_modules) = Len(converter.kernel_modules) + 1
    /\ SubSeq(converter'.kernel_modules, 1, Len(converter.kernel_modules))
          = converter.kernel_modules
    /\ LET lib == converter'.kernel_modules[Len(converter'.kernel_modules)]
       IN  /\ lib.base_avma = e.address
           /\ lib.avma_range = <<e.address, e.address + e.length>>
           /\ lib.path = KernelPath(e)
           /\ lib.debug_path =
                 IF KernelPath(e) \in KallsymsPaths /\ IsSome(recording.os_release)
                 THEN <<"/usr/lib/debug/boot/vmlinux-", Val(recording.os_release)>>
                 ELSE KernelPath(e)

\* C29: an executable Mmap or Mmap2 record with pid -1 appends one descriptor
\* to the kernel modules list (base and range from the mapping, the vmlinux
\* debug path for a kallsyms path when the OS release is known) and creates
\* no process; an executable record with another pid leaves the list alone.
C29_KernelMappings ==
    [][(MappingStep /\ IsExecutable(StepRecord)) =>
          IF StepRecord.e.pid = -1
          THEN AppendsKernelModule(StepRecord.e) /\ ProcessesKept
          ELSE KernelModulesKept]_vars

\* C29, as the code has it: the kernel modules list grows by an executable
\* Mmap record with pid -1 whose path names a DSO, which creates no process,
\* and by no other record; an executable Mmap2 record goes through the module
\* loader and registers a process under its pid, -1 included.
C29_KernelMmapOnly ==
    [][ConsumesRecord =>
          LET r == StepRecord
          IN  IF r.kind = "Mmap" /\ IsKernelMapping(r) /\ IsSome(r.e.dso_key)
              THEN AppendsKernelModule(r.e) /\ ProcessesKept
              ELSE /\ KernelModulesKept
                   /\ (r.kind = "Mmap2" /\ IsExecutable(r)
                          /\ (r.e.file_id[1] = "BuildId" \/ IsSome(r.e.dso_key))) =>
                         IsSome(converter'.processes[r.e.pid])]_vars

\* a kernel Mmap record appended the kallsyms descriptor, with the vmlinux
\* debug path of the known release
C29_Witness ==
    /\ pc = "run"
    /\ Len(hist) = 1
    /\ IsKernelMapping(hist[1].rec) /\ hist[1].rec.kind = "Mmap"
    /\ hist[1].rec.e.path = "[kernel.kallsyms]_text"
    /\ IsSome(recording.os_release)
    /\ Len(converter.kernel_modules) = 1
    /\ converter.kernel_modules[1].base_avma = 64
    /\ converter.kernel_modules[1].debug_path = <<"/usr/lib/debug/boot/vmlinux-", "6.1.0">>
    /\ converter.profile.processes = <<>>

\* an executable Mmap2 record with pid -1 was read: a process is registered
\* under -1 and the kernel modules list is empty
C29_Mmap2Kernel ==
    /\ pc = "run"
    /\ Len(hist) = 1
    /\ IsKernelMapping(hist[1].rec) /\ hist[1].rec.kind = "Mmap2"
    /\ converter.kernel_modules = <<>>
    /\ IsSome(converter.processes[-1])
    /\ Len(converter.profile.processes) = 1

----------------------------------------------------------------------------
\* C30: an Mmap record that is not executable, and an Mmap2 record whose
\* protection lacks PROT_EXEC, change nothing: the registries, the kernel
\* modules list, the unwinders and the output document are as before.
C30_NonExecutableSkipped ==
    [][(MappingStep /\ ~IsExecutable(StepRecord)) =>
          /\ converter' = converter
          /\ pc' = "run"]_vars

\* a readable and writable Mmap2 mapping of a library with a build ID, for a
\* process that is registered: its libraries are the ones it had
C30_Witness ==
    /\ pc = "run"
    /\ Len(hist) = 3
    /\ IsMainSample(hist[1].rec)
    /\ hist[2].rec.kind = "Mmap2" /\ hist[2].rec.e.protection = 3
    /\ hist[2].rec.e.pid = 1 /\ hist[2].rec.e.file_id[1] = "BuildId"
    /\ hist[3].rec.kind = "Mmap" /\ ~hist[3].rec.e.is_executable /\ hist[3].rec.e.pid = -1
    /\ IsSome(converter.processes[1])
    /\ converter.profile.processes[1].libs = <<>>
    /\ converter.kernel_modules = <<>>
    /\ Len(converter.profile.processes) = 1

\* a non-executable Mmap record for a pid that is not registered: no process
C30_WitnessNoProcess ==
    /\ pc = "run"
    /\ Len(hist) = 1
    /\ hist[1].rec.kind = "Mmap" /\ ~hist[1].rec.e.is_executable /\ hist[1].rec.e.pid = 2
    /\ converter.processes[2] = None
    /\ converter.profile.processes = <<>>

----------------------------------------------------------------------------
\* the records that parse and reach the loop body
IsParsed(r) ==
    r.kind \in {"Sample", "Fork", "Comm", "Exit", "Mmap", "Mmap2", "ContextSwitch", "Other"}
HasTimestamp(r) == IsParsed(r) /\ "timestamp" \in DOMAIN r /\ IsSome(r.timestamp)
\* the timestamp of the last timestamped record before position i, or 0
PreviousTimestamp(i) ==
    LET before == { j \in 1..(i - 1) : HasTimestamp(hist[j].rec) }
    IN  IF before = {} THEN 0
        ELSE Val(hist[CHOOSE j \in before : \A k \in before : k <= j].rec.timestamp)
Regresses(r) == HasTimestamp(r) /\ Val(r.timestamp) < PreviousTimestamp(Len(hist) + 1)
\* what the record's handler makes of the converter
Dispatched(r) ==
    CASE r.kind = "Sample" -> dispatch_sample(converter, interpretation, r)
      [] r.kind = "Fork" -> <<"ok", handle_thread_start(converter, r.e)>>
      [] r.kind = "Comm" -> <<"ok", handle_thread_name_update(converter, r.e, r.timestamp)>>
      [] r.kind = "Exit" -> <<"ok", handle_thread_end(converter, r.e)>>
      [] r.kind = "Mmap" -> <<"ok", handle_mmap(converter, r.e)>>
      [] r.kind = "Mmap2" -> <<"ok", handle_mmap2(converter, r.e)>>
      [] r.kind = "ContextSwitch" -> dispatch_context_switch(converter, r)
      [] OTHER -> <<"ok", converter>>

\* C31: a parsed record adds one diagnostic exactly when it has a timestamp
\* below that of the last timestamped record before it (0 if there is none);
\* whether it does or not, it is handled by its handler, in its place in the
\* order of arrival, and the loop goes on.
C31_TimestampRegression ==
    [][(ConsumesRecord /\ IsParsed(StepRecord)) =>
          LET r == StepRecord
          IN  /\ diagnostics' = diagnostics + (IF Regresses(r) THEN 1 ELSE 0)
              /\ hist' = Append(hist, HistEntry(r, converter'))
              /\ Dispatched(r)[1] = "ok" =>
                    /\ converter' = Dispatched(r)[2]
                    /\ pc' = "run"]_vars

\* a sample at 3 ms, a Fork at 1 ms and a sample at 2 ms: one diagnostic, for
\* the Fork, and both samples are in the output
C31_Witness ==
    /\ pc = "run"
    /\ Len(hist) = 3
    /\ IsMainSample(hist[1].rec) /\ hist[1].rec.timestamp = Some(Ms(3))
    /\ hist[2].rec.kind = "Fork" /\ hist[2].rec.timestamp = Some(Ms(1))
    /\ IsMainSample(hist[3].rec) /\ hist[3].rec.timestamp = Some(Ms(2))
    /\ diagnostics = 1
    /\ Len(converter.profile.samples) >= 2

----------------------------------------------------------------------------
\* the step handles a main-event sample that is dropped as a duplicate
DropsDuplicate ==
    /\ ConsumesRecord
    /\ IsMainSample(StepRecord)
    /\ IsSome(ThreadBefore(Val(StepRecord.e.tid)))
    /\ Val(ThreadBefore(Val(StepRecord.e.tid))).last_sample_timestamp = StepRecord.e.timestamp
\* nothing of the threads, and no sample, changes in the step
ThreadsUntouched ==
    /\ converter'.threads = converter.threads
    /\ converter'.profile.threads = converter.profile.threads
    /\ converter'.profile.samples = converter.profile.samples

C32_WitnessProcess ==
    /\ pc = "run"
    /\ Len(hist) = 3
    /\ IsMainSample(hist[1].rec) /\ hist[1].rec.e.tid = Some(2)
    /\ IsExit(hist[2].rec) /\ hist[2].rec.e.tid = 1
    /\ hist[3].rec = hist[1].rec
    /\ Len(converter.profile.samples) = 1
    /\ Len(converter.profile.processes) = 2

----------------------------------------------------------------------------
\* record i of the history emptied the saved stack of the thread under tid:
\* a switch-in, a main-event sample that was not dropped, or the end of the
\* thread by an exit or an exec
ClearedAt(i, tid) ==
    LET r == hist[i].rec
    IN  \/ IsSwitchIn(r) /\ TimedTid(r) = tid
        \/ IsMainSample(r) /\ TimedTid(r) = tid /\ hist[i].n > SamplesBefore(i)
        \/ r.kind = "Exit" /\ r.e.tid = tid
        \/ r.kind = "Comm" /\ r.e.tid = tid /\ r.e.is_execve
SavedAt(i, tid) == IsSchedSample(hist[i].rec) /\ Val(hist[i].rec.e.tid) = tid
Latest(S) == CHOOSE i \in S : \A j \in S : j <= i
\* the stack of the most recent sched_switch sample of the thread since its
\* saved stack was last emptied, or the empty stack
SavedSinceCleared(tid) ==
    LET cleared == { i \in 1..Len(hist) : ClearedAt(i, tid) }
        from == IF cleared = {} THEN 0 ELSE Latest(cleared)
        saved == { i \in (from + 1)..Len(hist) : SavedAt(i, tid) }
    IN  IF saved = {} THEN <<>> ELSE UserFramesRootFirst(hist[Latest(saved)].rec.e)

\* C33: after a switch-in, and after a main-event sample that is not dropped,
\* the thread's saved off-CPU stack is empty, with or without an off-CPU
\* group; and the samples of an off-CPU group carry the stack of the thread's
\* most recent sched_switch sample since the stack was last emptied, or no
\* frames when there was none.
C33_SavedStackLifetime ==
    [][/\ (ConsumesRecord /\ (IsSwitchIn(StepRecord) \/ EmitsOnCpu)) =>
             Val(converter'.threads[TimedTid(StepRecord)]).off_cpu_stack = <<>>
       /\ EmitsGroup =>
             /\ Len(GroupSamples) >= 1
             /\ \A i \in 1..Len(GroupSamples) :
                   GroupSamples[i].frames = SavedSinceCleared(TimedTid(StepRecord))
      ]_vars

\* switch-out, the sched_switch sample, then a sample: the group carries the
\* sched_switch sample's frames and the saved stack is empty again
C33_Witness ==
    /\ pc = "run"
    /\ Len(hist) = 3
    /\ IsSwitchOut(hist[1].rec)
    /\ IsSchedSample(hist[2].rec)
    /\ IsMainSample(hist[3].rec)
    /\ Len(converter.profile.samples) >= 2
    /\ converter.profile.samples[1].site # "on_cpu"
    /\ converter.profile.samples[1].frames = UserFramesRootFirst(hist[2].rec.e)
    /\ converter.profile.samples[1].frames # <<>>
    /\ Val(converter.threads[1]).off_cpu_stack = <<>>

\* a switch-in that yields no group empties the saved stack all the same
C33_WitnessNoGroup ==
    /\ pc = "run"
    /\ Len(hist) = 2
    /\ IsSchedSample(hist[1].rec)
    /\ IsSwitchIn(hist[2].rec)
    /\ converter.profile.samples = <<>>
    /\ Val(converter.threads[1]).off_cpu_stack = <<>>

\* switch-out, switch-in, then a sample: the group of the switch-in, with no
\* sched_switch sample before it, has no frames
C33_WitnessEmpty ==
    /\ pc = "run"
    /\ Len(hist) = 2
    /\ IsSwitchOut(hist[1].rec)
    /\ IsSwitchIn(hist[2].rec)
    /\ Len(converter.profile.samples) >= 1
    /\ converter.profile.samples[1].frames = <<>>

----------------------------------------------------------------------------
Registered == { t \in TidDomain : IsSome(converter.threads[t]) }
\* the output process the thread registered under t is attached to
ProcessAttached(t) == OutThread(converter, t).process
\* the output processes that are registered under some pid
RegisteredProcesses ==
    { Val(converter.processes[p]).profile_process :
          p \in { q \in PidDomain : IsSome(converter.processes[q]) } }
HasConverter == pc \in {"run", "failed", "done"}

\* C34: every thread in the thread registry is attached to an output process
\* that is registered in the process registry.
C34_RegistryConsistency ==
    HasConverter => \A t \in Registered : ProcessAttached(t) \in RegisteredProcesses

\* C34, as the code has it: a registered thread is attached to an output
\* process that is registered, or to one that was ended, by the exit or the
\* exec of its main thread, and is registered no more.
C34_AttachedOrEnded ==
    HasConverter =>
        \A t \in Registered :
            /\ ProcessAttached(t) \in 1..Len(converter.profile.processes)
            /\ \/ ProcessAttached(t) \in RegisteredProcesses
               \/ IsSome(converter.profile.processes[ProcessAttached(t)].end_time)

\* thread 2 of process 1 starts, the main thread exits, thread 2 is sampled:
\* the sample is on a thread of the first output process, which has ended,
\* and pid 1 is registered with a second one
C34_StaleThread ==
    /\ pc = "run"
    /\ Len(hist) = 3
    /\ hist[1].rec.kind = "Fork" /\ hist[1].rec.e.tid = 2
    /\ IsExit(hist[2].rec) /\ hist[2].rec.e.tid = 1
    /\ IsMainSample(hist[3].rec) /\ hist[3].rec.e.tid = Some(2)
    /\ hist[3].rec.e.pid = Some(1)
    /\ Len(converter.profile.samples) = 1
    /\ converter.profile.samples[1].thread = Val(converter.threads[2]).profile_thread
    /\ ProcessAttached(2) = 1
    /\ IsSome(converter.profile.processes[1].end_time)
    /\ Val(converter.processes[1]).profile_process = 2

----------------------------------------------------------------------------
\* the step runs the module loader for a record's mapping
LoaderStep == ConsumesRecord /\ ReachesLoader(StepRecord)
UnwinderAfter(pid) == Val(converter'.processes[pid]).unwinder
LibsAfter(pid) == OutProcess(converter', pid).libs
\* the step registers a module with the unwinder of the record's process
RegistersModule == Len(UnwinderAfter(StepRecord.e.pid)) > Len(UnwinderBefore(StepRecord.e.pid))
\* the step attaches one library to the record's process, over the mapping
AttachesLibrary ==
    LET pid == StepRecord.e.pid
        e == StepRecord.e
    IN  /\ Len(LibsAfter(pid)) = Len(LibsBefore(pid)) + 1
        /\ LibsAfter(pid)[Len(LibsAfter(pid))].avma_range = <<e.address, e.address + e.length>>
        /\ LibsAfter(pid)[Len(LibsAfter(pid))].base_avma
              = UnwinderAfter(pid)[Len(UnwinderAfter(pid))].base_avma
DebugIdDerived(r) == IsSome(r.e.file) /\ IsSome(Val(r.e.file).debug_id)

\* C35: whenever the loader registers a module with the process's unwinder,
\* a library for the module is attached to the process.
C35_ModuleAndLibraryAgree == [][(LoaderStep /\ RegistersModule) => AttachesLibrary]_vars

\* C35, as the code has it: a registered module comes with a library when the
\* object's debug ID can be derived, and with none when it cannot.
C35_AgreeWhenDebugId ==
    [][(LoaderStep /\ RegistersModule) =>
          IF DebugIdDerived(StepRecord) THEN AttachesLibrary
          ELSE LibsAfter(StepRecord.e.pid) = LibsBefore(StepRecord.e.pid)]_vars

\* an object without a debug ID was mapped: the unwinder has its module and
\* the process has no library
C35_ModuleWithoutLibrary ==
    /\ pc = "run"
    /\ Len(hist) = 1
    /\ hist[1].rec.kind = "Mmap"
    /\ hist[1].rec.e.file = Some(ObjNoDebugId)
    /\ Len(Val(converter.processes[1]).unwinder) = 1
    /\ converter.profile.processes[1].libs = <<>>

\* an object with a debug ID was mapped: one module, one library
C35_Witness ==
    /\ pc = "run"
    /\ Len(hist) = 1
    /\ hist[1].rec.kind = "Mmap2"
    /\ hist[1].rec.e.file = Some(ObjText(Some("bid_f"), Some("dbg")))
    /\ Len(Val(converter.processes[1]).unwinder) = 1
    /\ Len(converter.profile.processes[1].libs) = 1

----------------------------------------------------------------------------
\* the step handles an exec of a thread that is registered
ExecStep ==
    /\ CommStep
    /\ StepRecord.e.is_execve
    /\ IsSome(ThreadBefore(StepRecord.e.tid))
ReplacedThread == converter'.profile.threads[Val(ThreadBefore(StepRecord.e.tid)).profile_thread]
ReplacedProcess ==
    converter'.profile.processes[Val(ProcessBefore(StepRecord.e.pid)).profile_process]
MainExec ==
    StepRecord.e.pid = StepRecord.e.tid /\ IsSome(ProcessBefore(StepRecord.e.pid))

\* C36: at an exec, the thread that is created starts no earlier than the
\* thread it replaces ends, and so does the process when the thread is main.
C36_ExecLifetimesDisjoint ==
    [][ExecStep =>
          /\ OutThread(converter', StepRecord.e.tid).start_time >= Val(ReplacedThread.end_time)
          /\ MainExec =>
                OutProcess(converter', StepRecord.e.pid).start_time
                    >= Val(ReplacedProcess.end_time)]_vars

\* C36, as the code has it: the new thread and process start at the last
\* sample's time and the replaced ones end at the record's; the start is no
\* earlier than the end when the record has no timestamp, a zero one, or one
\* that is not after the last sample.
C36_ExecStartsAtSampleTime ==
    [][ExecStep =>
          LET e == StepRecord.e
              start == SatRef(converter.current_sample_time)
              late == /\ IsSome(StepRecord.timestamp)
                      /\ Val(StepRecord.timestamp) > Max(converter.current_sample_time, Ref)
          IN  /\ OutThread(converter', e.tid).start_time = start
              /\ ReplacedThread.end_time = Some(ExecEndTime(StepRecord))
              /\ MainExec => OutProcess(converter', e.pid).start_time = start
              /\ late <=> start < Val(ReplacedThread.end_time)]_vars

\* a sample at 2 ms and an exec at 5 ms, with the reference at 1 ms: the old
\* thread and process end at 4 ms and the new ones start at 1 ms
C36_Overlap ==
    /\ pc = "run"
    /\ Len(hist) = 2
    /\ IsMainSample(hist[1].rec) /\ hist[1].rec.timestamp = Some(Ms(2))
    /\ IsComm(hist[2].rec) /\ hist[2].rec.e.is_execve
    /\ hist[2].rec.timestamp = Some(Ms(5))
    /\ Ref = Ms(1)
    /\ converter.profile.threads[1].end_time = Some(Ms(4))
    /\ converter.profile.threads[2].start_time = Ms(1)
    /\ converter.profile.processes[1].end_time = Some(Ms(4))
    /\ converter.profile.processes[2].start_time = Ms(1)

====
